---- MODULE Spec2Model ----
(***************************************************************************)
(* The fwup action interpreter (src/src/functions.c): the action table,    *)
(* fun_apply_funlist and the validate / compute_progress / run functions   *)
(* of the actions, over the block layer they call (block cache, pad-to-    *)
(* block writer, sparse map, resource stream, FAT adapter, U-Boot          *)
(* environment codec).  The block layer's own files are not part of the    *)
(* sources at hand; it is modelled from sections 3 and 4 of the            *)
(* specification.                                                          *)
(*                                                                         *)
(* Sizes are scaled: a block is FWUP_BLOCK_SIZE = 2 bytes instead of 512   *)
(* and a digest is crypto_generichash_BYTES = 2 bytes instead of 32, so    *)
(* that unaligned chunks, partial blocks and trailing holes shorter and    *)
(* longer than a block all occur on a sink of a few bytes.                 *)
(***************************************************************************)
EXTENDS Integers, Sequences, FiniteSets, TLC

VARIABLES
    fwup_unsafe,   \* the process-wide flag gating path_write, pipe_write, execute
    cfg,           \* the configuration (manifest): resources, uboot and mbr sections
    arch,          \* the bytes the archive really holds for the bound resource
    funlist,       \* the flattened funlist: "<argc>", "<name>", "<arg>", ...
    fctx,          \* struct fun_context: type, title, argc, argv
    pc,            \* the driver's position: progress, run, flush, done, failed
    ix,            \* fun_apply_funlist's cursor into the funlist
    output,        \* the block cache and the sink behind it
    fat,           \* the FAT volumes on the output
    progress,      \* total_units and the units reported so far
    stream,        \* the resource stream's reader position
    host,          \* the host OS: files, descriptors, spawned commands
    last_error,    \* the last-error string
    log,           \* what has been done so far, in order
    seen           \* the buffer the last block-cache read of an action returned

vars == <<fwup_unsafe, cfg, arch, funlist, fctx, pc, ix, output, fat,
          progress, stream, host, last_error, log, seen>>

----------------------------------------------------------------------------
(* Sizes and bounds *)

FWUP_BLOCK_SIZE == 2

crypto_generichash_BYTES == 2

FUN_MAX_ARGS == 8

\* The longest funlist, in actions.
MaxActions == 2

\* The longest chunk one read of the resource stream yields; a chunk plan
\* gives the lengths of the first MaxChunk reads.
MaxChunk == 3

\* The width of a C int, scaled from 32 bits.
INT_BITS == 16

NULL == "<NULL>"

----------------------------------------------------------------------------
(* Sequences of bytes *)

Min(a, b) == IF a < b THEN a ELSE b

Max(a, b) == IF a > b THEN a ELSE b

Zeros(n) == [i \in 1..n |-> 0]

Fill(n, v) == [i \in 1..n |-> v]

RECURSIVE SumSeq(_)
SumSeq(s) == IF s = <<>> THEN 0 ELSE Head(s) + SumSeq(Tail(s))

Event(op, s, n) == [op |-> op, s |-> s, n |-> n, m |-> 0, b |-> <<>>]

Event2(op, s, n, m) == [op |-> op, s |-> s, n |-> n, m |-> m, b |-> <<>>]

\* A call of the FAT adapter's pwrite by the action s, of n bytes: the file
\* offset handed to the adapter, and the offset it was computed from.
OffsetEvent(op, s, n, handed, from) ==
    [op |-> op, s |-> s, n |-> n, m |-> handed, b |-> <<from>>]

\* A block_cache_pwrite by the action s of the bytes buf at byte offset off.
PwriteEvent(s, off, buf) == [op |-> "pwrite", s |-> s, n |-> Len(buf), m |-> off, b |-> buf]

----------------------------------------------------------------------------
(* strtoul / strtoull with base 0, on the operand strings that occur *)

NumeralValue ==
    [s \in {"0", "1", "2", "3", "4", "5", "6", "7", "8", "9", "10",
            "0x10", "010", "0xff", "255", "256", "16383", "16384",
            "65537"} |->
        CASE s = "0" -> 0 [] s = "1" -> 1 [] s = "2" -> 2 [] s = "3" -> 3
          [] s = "4" -> 4 [] s = "5" -> 5 [] s = "6" -> 6 [] s = "7" -> 7
          [] s = "8" -> 8 [] s = "9" -> 9 [] s = "10" -> 10
          [] s = "0x10" -> 16 [] s = "010" -> 8
          [] s = "0xff" -> 255 [] s = "255" -> 255 [] s = "256" -> 256
          [] s = "16383" -> 16383 [] s = "16384" -> 16384
          [] s = "65537" -> 65537]

\* A string that does not start with a numeral converts to 0.
strtoull(s) == IF s \in DOMAIN NumeralValue THEN NumeralValue[s] ELSE 0

\* unsigned long has the width of unsigned long long (LP64).
strtoul(s) == strtoull(s)

----------------------------------------------------------------------------
(* Sparse map: run lengths, data first, then alternating hole / data *)

sparse_file_size(map) == SumSeq(map)

sparse_file_data_size(map) ==
    SumSeq([i \in 1..((Len(map) + 1) \div 2) |-> map[2 * i - 1]])

sparse_ending_hole_size(map) ==
    IF Len(map) > 0 /\ Len(map) % 2 = 0 THEN map[Len(map)] ELSE 0

\* Where data byte number pos (from 0) lies at the destination, and how many
\* data bytes are left in its run.
RECURSIVE SparseRunAt(_, _, _, _)
SparseRunAt(map, i, pos, base) ==
    IF i > Len(map) THEN [offset |-> base + pos, left |-> 0]
    ELSE IF pos < map[i] THEN [offset |-> base + pos, left |-> map[i] - pos]
    ELSE SparseRunAt(map, i + 2, pos - map[i],
                     base + map[i] + (IF i + 1 <= Len(map) THEN map[i + 1] ELSE 0))

----------------------------------------------------------------------------
(* Resource stream: the reader function of the context *)

\* One read: at most want bytes, never across the end of a data run, and
\* len = 0 once the archive entry is exhausted.
stream_read(st, map, data, want) ==
    LET at == SparseRunAt(map, 1, st.pos, 0)
        n  == Min(want, Min(at.left, Len(data) - st.pos))
    IN  IF st.pos >= Len(data) \/ at.left = 0
        THEN [len |-> 0, buffer |-> <<>>, offset |-> 0, stream |-> st]
        ELSE [len |-> n,
              buffer |-> SubSeq(data, st.pos + 1, st.pos + n),
              offset |-> at.offset,
              stream |-> [st EXCEPT !.pos = st.pos + n]]

----------------------------------------------------------------------------
(* BLAKE2b, abstracted to a 16-bit running digest, and its hex form *)

HashModulus == 256 ^ crypto_generichash_BYTES

crypto_generichash_init == 1

RECURSIVE crypto_generichash_update(_, _)
crypto_generichash_update(h, buf) ==
    IF buf = <<>> THEN h
    ELSE crypto_generichash_update((h * 257 + Head(buf) + 1) % HashModulus, Tail(buf))

\* The digest's bytes, most significant first.
crypto_generichash_final(h) ==
    [i \in 1..crypto_generichash_BYTES |->
        (h \div (256 ^ (crypto_generichash_BYTES - i))) % 256]

HexDigit == <<"0", "1", "2", "3", "4", "5", "6", "7",
              "8", "9", "a", "b", "c", "d", "e", "f">>

bytes_to_hex(bytes) ==
    [i \in 1..(2 * Len(bytes)) |->
        LET b == bytes[(i + 1) \div 2]
        IN  IF i % 2 = 1 THEN HexDigit[(b \div 16) + 1] ELSE HexDigit[(b % 16) + 1]]

\* The hex digest of a whole byte string.
Blake2bHex(data) ==
    bytes_to_hex(crypto_generichash_final(
        crypto_generichash_update(crypto_generichash_init, data)))

----------------------------------------------------------------------------
(* Block cache over the sink (a regular file that grows when written past  *)
(* its end)                                                                *)

BlockOf(off) == off \div FWUP_BLOCK_SIZE

DevByte(dev, p) == IF p < Len(dev) THEN dev[p + 1] ELSE 0

\* The bytes of block b as the cache sees them: its entry, else the device.
BlockBytes(out, b) ==
    IF b \in DOMAIN out.cache THEN out.cache[b].data
    ELSE [i \in 1..FWUP_BLOCK_SIZE |-> DevByte(out.dev, b * FWUP_BLOCK_SIZE + i - 1)]

\* The device after the blocks of the function blocks were written to it.
DevWriteBlocks(dev, blocks) ==
    IF DOMAIN blocks = {} THEN dev
    ELSE LET last   == CHOOSE b \in DOMAIN blocks : \A c \in DOMAIN blocks : c <= b
             newlen == Max(Len(dev), (last + 1) * FWUP_BLOCK_SIZE)
         IN  [i \in 1..newlen |->
                 IF BlockOf(i - 1) \in DOMAIN blocks
                 THEN blocks[BlockOf(i - 1)][((i - 1) % FWUP_BLOCK_SIZE) + 1]
                 ELSE DevByte(dev, i - 1)]

block_cache_pwrite(out, buf, off, streamed, eager) ==
    LET touched == {BlockOf(off + i - 1) : i \in 1..Len(buf)}
        newdata == [b \in touched |->
                       [i \in 1..FWUP_BLOCK_SIZE |->
                           LET p == b * FWUP_BLOCK_SIZE + i - 1
                           IN  IF p >= off /\ p < off + Len(buf)
                               THEN buf[p - off + 1]
                               ELSE BlockBytes(out, b)[i]]]
        through == streamed /\ eager
    IN  [dev   |-> IF through THEN DevWriteBlocks(out.dev, newdata) ELSE out.dev,
         cache |-> [b \in DOMAIN out.cache \cup touched |->
                       IF b \in touched
                       THEN [data |-> newdata[b], dirty |-> ~through]
                       ELSE out.cache[b]]]

\* A variant that reads the device and not the cache; C10 tells the two apart.
block_cache_pread_device(out, len, off) ==
    [rc |-> IF off + len > Len(out.dev) THEN -1 ELSE 0,
     buffer |-> [i \in 1..len |-> DevByte(out.dev, off + i - 1)]]

\* A short read (a byte neither cached nor on the device) is an error.
block_cache_pread(out, len, off) ==
    LET short == \E p \in off..(off + len - 1) :
                    BlockOf(p) \notin DOMAIN out.cache /\ p >= Len(out.dev)
    IN  [rc |-> IF short THEN -1 ELSE 0,
         buffer |-> [i \in 1..len |->
                        BlockBytes(out, BlockOf(off + i - 1))
                            [((off + i - 1) % FWUP_BLOCK_SIZE) + 1]]]

block_cache_flush(out) ==
    LET dirty == {b \in DOMAIN out.cache : out.cache[b].dirty}
    IN  [dev   |-> DevWriteBlocks(out.dev, [b \in dirty |-> out.cache[b].data]),
         cache |-> [b \in DOMAIN out.cache |-> [out.cache[b] EXCEPT !.dirty = FALSE]]]

\* Clears the entries the range covers; a hard trim discards the range on
\* the device too (discarded bytes read as zero).
block_cache_trim(out, off, count, hard) ==
    LET covered(b) == b * FWUP_BLOCK_SIZE >= off
                      /\ (b + 1) * FWUP_BLOCK_SIZE <= off + count
    IN  [dev   |-> IF hard
                   THEN [i \in 1..Len(out.dev) |->
                            IF i - 1 >= off /\ i - 1 < off + count THEN 0 ELSE out.dev[i]]
                   ELSE out.dev,
         cache |-> [b \in {c \in DOMAIN out.cache : ~covered(c)} |-> out.cache[b]]]

\* What a reader of the output sees at byte p.
OutputByte(out, p) == BlockBytes(out, BlockOf(p))[(p % FWUP_BLOCK_SIZE) + 1]

----------------------------------------------------------------------------
(* Pad-to-block writer: holds at most one partial block *)

ptbw_init == [offset |-> 0, buf |-> <<>>]

\* Appends bytes to the partial block, handing each block to the cache as it
\* fills.
RECURSIVE PtbwAppend(_, _, _, _)
PtbwAppend(p, out, bytes, eager) ==
    IF bytes = <<>> THEN [ptbw |-> p, output |-> out]
    ELSE LET nb == Append(p.buf, Head(bytes))
         IN  IF Len(nb) = FWUP_BLOCK_SIZE
             THEN PtbwAppend([offset |-> p.offset + FWUP_BLOCK_SIZE, buf |-> <<>>],
                             block_cache_pwrite(out, nb, p.offset, TRUE, eager),
                             Tail(bytes), eager)
             ELSE PtbwAppend([p EXCEPT !.buf = nb], out, Tail(bytes), eager)

ptbw_flush(p, out, eager) ==
    IF p.buf = <<>> THEN [rc |-> 0, ptbw |-> p, output |-> out]
    ELSE [rc |-> 0,
          ptbw |-> [offset |-> p.offset + FWUP_BLOCK_SIZE, buf |-> <<>>],
          output |-> block_cache_pwrite(
                        out, p.buf \o Zeros(FWUP_BLOCK_SIZE - Len(p.buf)),
                        p.offset, TRUE, eager)]

PtbwWritten(r) == [rc |-> 0, ptbw |-> r.ptbw, output |-> r.output]

\* Offsets only grow; a gap is zero-filled inside the partial block, and a
\* gap that leaves the block pads it and starts the next partial block.
ptbw_pwrite(p, out, buf, off, eager) ==
    IF p.buf # <<>> /\ off < p.offset + Len(p.buf)
    THEN [rc |-> -1, ptbw |-> p, output |-> out]
    ELSE IF p.buf # <<>> /\ BlockOf(off) * FWUP_BLOCK_SIZE = p.offset
    THEN PtbwWritten(PtbwAppend(p, out,
                                Zeros(off - (p.offset + Len(p.buf))) \o buf, eager))
    ELSE PtbwWritten(PtbwAppend(
             [offset |-> BlockOf(off) * FWUP_BLOCK_SIZE, buf |-> <<>>],
             ptbw_flush(p, out, eager).output,
             Zeros(off - BlockOf(off) * FWUP_BLOCK_SIZE) \o buf, eager))

----------------------------------------------------------------------------
(* FAT adapter: the volumes on the output, by block offset.  A volume is   *)
(* its files (path to contents), directories, label and attributes.        *)

EmptyVolume == [files |-> <<>>, dirs |-> {}, label |-> "", attrs |-> <<>>]

FatOk(f) == [rc |-> 0, fat |-> f]

FatErr(f) == [rc |-> -1, fat |-> f]

Without(fn, k) == [x \in DOMAIN fn \ {k} |-> fn[x]]

With(fn, k, v) == [x \in DOMAIN fn \cup {k} |-> IF x = k THEN v ELSE fn[x]]

fatfs_mkfs(f, off, count) ==
    IF count = 0 THEN FatErr(f) ELSE FatOk(With(f, off, EmptyVolume))

fatfs_rm(f, off, path, file_must_exist) ==
    IF off \notin DOMAIN f THEN FatErr(f)
    ELSE IF path \notin DOMAIN f[off].files
    THEN (IF file_must_exist THEN FatErr(f) ELSE FatOk(f))
    ELSE FatOk([f EXCEPT ![off].files = Without(@, path),
                         ![off].attrs = Without(@, path)])

fatfs_touch(f, off, path) ==
    IF off \notin DOMAIN f THEN FatErr(f)
    ELSE IF path \in DOMAIN f[off].files THEN FatOk(f)
    ELSE FatOk([f EXCEPT ![off].files = With(@, path, <<>>)])

\* Writes buf at offset of the file, creating it and growing it with zeros.
fatfs_pwrite(f, off, path, offset, buf) ==
    IF off \notin DOMAIN f \/ offset < 0 THEN FatErr(f)
    ELSE LET old == IF path \in DOMAIN f[off].files THEN f[off].files[path] ELSE <<>>
             n   == Max(Len(old), offset + Len(buf))
             new == [i \in 1..n |->
                        IF i - 1 >= offset /\ i - 1 < offset + Len(buf)
                        THEN buf[i - offset]
                        ELSE IF i <= Len(old) THEN old[i] ELSE 0]
         IN  FatOk([f EXCEPT ![off].files = With(@, path, new)])

fatfs_mv(f, off, from, to, force) ==
    IF off \notin DOMAIN f THEN FatErr(f)
    ELSE IF from \notin DOMAIN f[off].files THEN FatErr(f)
    ELSE IF to \in DOMAIN f[off].files /\ ~force THEN FatErr(f)
    ELSE FatOk([f EXCEPT ![off].files =
                   Without(With(@, to, f[off].files[from]), from)])

fatfs_cp(f, off, from, to) ==
    IF off \notin DOMAIN f THEN FatErr(f)
    ELSE IF from \notin DOMAIN f[off].files THEN FatErr(f)
    ELSE FatOk([f EXCEPT ![off].files = With(@, to, f[off].files[from])])

fatfs_mkdir(f, off, path) ==
    IF off \notin DOMAIN f THEN FatErr(f)
    ELSE FatOk([f EXCEPT ![off].dirs = @ \cup {path}])

fatfs_setlabel(f, off, label) ==
    IF off \notin DOMAIN f THEN FatErr(f)
    ELSE FatOk([f EXCEPT ![off].label = label])

fatfs_attrib(f, off, path, attrib) ==
    IF off \notin DOMAIN f THEN FatErr(f)
    ELSE IF path \notin DOMAIN f[off].files THEN FatErr(f)
    ELSE FatOk([f EXCEPT ![off].attrs = With(@, path, attrib)])

----------------------------------------------------------------------------
(* Narrowing to int *)

CastInt(x) == ((x + 2 ^ (INT_BITS - 1)) % (2 ^ INT_BITS)) - 2 ^ (INT_BITS - 1)

----------------------------------------------------------------------------
(* U-Boot environment codec.  Serialized: a 4-byte little-endian CRC over  *)
(* the rest, then NUL-terminated name=value records in sorted order, an    *)
(* empty record, and 0xFF padding.  Names and values are byte strings.     *)

StrBytes ==
    [s \in {"a", "b", "1", "2"} |->
        CASE s = "a" -> <<97>> [] s = "b" -> <<98>>
          [] s = "1" -> <<49>> [] s = "2" -> <<50>>]

\* CRC32, abstracted to a 16-bit checksum stored in the 4-byte field.
RECURSIVE Crc32(_, _)
Crc32(c, bytes) ==
    IF bytes = <<>> THEN c
    ELSE Crc32((c * 31 + Head(bytes) + 7) % 65521, Tail(bytes))

CrcBytes(c) == <<c % 256, (c \div 256) % 256, 0, 0>>

RECURSIVE LexLess(_, _)
LexLess(a, b) ==
    IF b = <<>> THEN FALSE
    ELSE IF a = <<>> THEN TRUE
    ELSE IF Head(a) # Head(b) THEN Head(a) < Head(b)
    ELSE LexLess(Tail(a), Tail(b))

RECURSIVE SortedNames(_)
SortedNames(S) ==
    IF S = {} THEN <<>>
    ELSE LET m == CHOOSE x \in S : \A y \in S \ {x} : LexLess(x, y)
         IN  <<m>> \o SortedNames(S \ {m})

RECURSIVE SerializeVars(_, _)
SerializeVars(names, vs) ==
    IF names = <<>> THEN <<>>
    ELSE Head(names) \o <<61>> \o vs[Head(names)] \o <<0>>
         \o SerializeVars(Tail(names), vs)

uboot_env_create_cfg(section) ==
    [block_offset |-> section.block_offset,
     env_size |-> section.block_count * FWUP_BLOCK_SIZE,
     vars |-> <<>>]

uboot_env_write(env) ==
    LET body == SerializeVars(SortedNames(DOMAIN env.vars), env.vars) \o <<0>>
        room == env.env_size - 4
        tail == body \o Fill(room - Len(body), 255)
    IN  IF Len(body) > room THEN [rc |-> -1, buffer |-> <<>>]
        ELSE [rc |-> 0, buffer |-> CrcBytes(Crc32(0, tail)) \o tail]

\* The index of the first v in s at or after i, or 0.
RECURSIVE IndexFrom(_, _, _)
IndexFrom(s, i, v) ==
    IF i > Len(s) THEN 0 ELSE IF s[i] = v THEN i ELSE IndexFrom(s, i + 1, v)

RECURSIVE ParseVars(_, _, _)
ParseVars(buf, i, vs) ==
    IF i > Len(buf) THEN [rc |-> -1, vars |-> vs]
    ELSE IF buf[i] = 0 THEN [rc |-> 0, vars |-> vs]
    ELSE LET j == IndexFrom(buf, i, 0)
             k == IndexFrom(buf, i, 61)
         IN  IF j = 0 \/ k = 0 \/ k > j \/ k = i THEN [rc |-> -1, vars |-> vs]
             ELSE ParseVars(buf, j + 1,
                            With(vs, SubSeq(buf, i, k - 1), SubSeq(buf, k + 1, j - 1)))

uboot_env_read(env, buffer) ==
    LET tail == SubSeq(buffer, 5, Len(buffer))
    IN  IF Len(buffer) < 5 \/ SubSeq(buffer, 1, 4) # CrcBytes(Crc32(0, tail))
        THEN [rc |-> -1, env |-> env]
        ELSE LET p == ParseVars(tail, 1, <<>>)
             IN  [rc |-> p.rc, env |-> [env EXCEPT !.vars = p.vars]]

uboot_env_setenv(env, name, value) ==
    [env EXCEPT !.vars = With(@, name, value)]

uboot_env_unsetenv(env, name) ==
    [env EXCEPT !.vars = Without(@, name)]

----------------------------------------------------------------------------
(* MBR builder: one block ending in the 0x55 0xAA signature *)

mbr_create_cfg(name) == Zeros(FWUP_BLOCK_SIZE - 2) \o <<85, 170>>

----------------------------------------------------------------------------
(* The host OS: files by path, open descriptors, and the calls made *)

UnopenablePaths == {"/nodir/out"}

SinkFd == 3

host_open(h, path) ==
    IF path \in UnopenablePaths THEN [fd |-> -1, host |-> h]
    ELSE LET fd == CHOOSE n \in 0..(Cardinality(DOMAIN h.open) + 1) :
                       n \notin DOMAIN h.open
                       /\ \A m \in 0..(n - 1) : m \in DOMAIN h.open
         IN  [fd |-> fd,
              host |-> [h EXCEPT !.open = With(@, fd, [path |-> path, pos |-> 0]),
                                 !.files = IF path \in DOMAIN @ THEN @
                                           ELSE With(@, path, <<>>)]]

\* write(): accept of the bytes are taken; -1 on a descriptor that is not open.
host_write(h, fd, buf, accept) ==
    IF fd \notin DOMAIN h.open THEN [written |-> -1, host |-> h]
    ELSE LET n   == Min(accept, Len(buf))
             o   == h.open[fd]
             old == IF o.path \in DOMAIN h.files THEN h.files[o.path] ELSE <<>>
             new == [i \in 1..Max(Len(old), o.pos + n) |->
                        IF i - 1 >= o.pos /\ i - 1 < o.pos + n THEN buf[i - o.pos]
                        ELSE IF i <= Len(old) THEN old[i] ELSE 0]
         IN  [written |-> n,
              host |-> [h EXCEPT !.files = With(@, o.path, new),
                                 !.open[fd].pos = o.pos + n]]

host_close(h, fd) == [h EXCEPT !.open = Without(@, fd)]

----------------------------------------------------------------------------
(* The context the action functions work on.  w is the mutable world       *)
(* (output, fat, progress, stream, host, last_error, log), f the function  *)
(* context (type, title, argc, argv) and e what the environment decides    *)
(* during the call: the chunk plan of the stream, whether the cache writes *)
(* streamed blocks through at once, how many bytes write() accepts, and    *)
(* the value an uninitialized variable happens to hold.                    *)

FUN_CONTEXT_GLOBAL == "GLOBAL"

FUN_CONTEXT_FILE == "FILE"

Arg(f, i) == f.argv[i + 1]

Ok(w) == [rc |-> 0, w |-> w]

\* ERR_RETURN / ERR_CLEANUP_MSG: set the last error, return -1.
Fail(w, msg) == [rc |-> -1, w |-> [w EXCEPT !.last_error = msg]]

\* A failed assert(): the process aborts (SIGABRT).
Abort(w) == [rc |-> -6, w |-> [w EXCEPT !.last_error = "assertion failed"]]

Logged(w, ev) == [w EXCEPT !.log = Append(@, ev)]

progress_report(w, units) == [w EXCEPT !.progress.current_units = @ + units]

PlanLen(e, n) == IF n <= Len(e.plan) THEN e.plan[n] ELSE e.plan[Len(e.plan)]

HasResource(title) == title \in DOMAIN cfg.resources

\* expected_hash is usable: present and 2 * crypto_generichash_BYTES long.
\* (A missing blake2b-256 entry is the empty string here.)
HashUsable(resource) == Len(resource.hash) = crypto_generichash_BYTES * 2

HashMatches(h, resource) ==
    bytes_to_hex(crypto_generichash_final(h)) = resource.hash

----------------------------------------------------------------------------
(* raw_write *)

\* A variant that takes the argument as a byte offset; C9 tells the two apart.
RawDestOffsetUnscaled(f) == strtoull(Arg(f, 1))

RawDestOffset(f) == strtoull(Arg(f, 1)) * FWUP_BLOCK_SIZE

\* The for (;;) loop of raw_write_run; l carries w, ptbw, hash_state,
\* len_written, the number of the read, and rc.
RECURSIVE raw_write_loop(_, _, _, _)
RECURSIVE RawWriteChunk(_, _, _, _, _, _)
RawWriteChunk(l, rd, pw, sfm, dest_offset, e) ==
    IF pw.rc < 0
    THEN [l EXCEPT !.w.stream = rd.stream,
                   !.hash = crypto_generichash_update(l.hash, rd.buffer),
                   !.rc = -1]
    ELSE raw_write_loop(
             [w |-> progress_report(
                       Logged([l.w EXCEPT !.stream = rd.stream, !.output = pw.output],
                              Event2("sink_data", "raw_write", rd.len,
                                     dest_offset + rd.offset)),
                       rd.len),
              ptbw |-> pw.ptbw,
              hash |-> crypto_generichash_update(l.hash, rd.buffer),
              len_written |-> l.len_written + rd.len,
              n |-> l.n + 1, rc |-> 0],
             sfm, dest_offset, e)

RawWriteRead(l, rd, sfm, dest_offset, e) ==
    IF rd.len = 0 THEN l
    ELSE RawWriteChunk(l, rd,
                       ptbw_pwrite(l.ptbw, l.w.output, rd.buffer,
                                   dest_offset + rd.offset, e.eager),
                       sfm, dest_offset, e)

raw_write_loop(l, sfm, dest_offset, e) ==
    RawWriteRead(l, stream_read(l.w.stream, sfm, arch, PlanLen(e, l.n)),
                 sfm, dest_offset, e)

\* The zero block written inside a trailing hole.
RawEndingHoleLen(sfm) == Min(FWUP_BLOCK_SIZE, sparse_ending_hole_size(sfm))

RawHoleOffset(sfm, dest_offset) ==
    dest_offset + sparse_file_size(sfm) - RawEndingHoleLen(sfm)

RawHoleWritten(l, hw, sfm, dest_offset) ==
    IF hw.rc < 0 THEN [l EXCEPT !.rc = -1]
    ELSE [l EXCEPT !.ptbw = hw.ptbw,
                   !.w = Logged([l.w EXCEPT !.output = hw.output],
                                Event2("sink_hole", "raw_write", RawEndingHoleLen(sfm),
                                       RawHoleOffset(sfm, dest_offset)))]

\* A variant that writes nothing for a trailing hole; C8 tells the two apart.
RawWriteHoleSkipped(l, sfm, dest_offset, e) == l

\* if (ending_hole > 0): write min(ending_hole, block) zeros at the very end.
RawWriteHole(l, sfm, dest_offset, e) ==
    IF l.rc < 0 \/ sparse_ending_hole_size(sfm) <= 0 THEN l
    ELSE RawHoleWritten(l,
                        ptbw_pwrite(l.ptbw, l.w.output, Zeros(RawEndingHoleLen(sfm)),
                                    RawHoleOffset(sfm, dest_offset), e.eager),
                        sfm, dest_offset)

RawFlushed(l, fl) ==
    [l EXCEPT !.ptbw = fl.ptbw,
              !.w = Logged([l.w EXCEPT !.output = fl.output],
                           Event("sink_flush", "raw_write", 0))]

RawWriteFlush(l, e) ==
    IF l.rc < 0 THEN l ELSE RawFlushed(l, ptbw_flush(l.ptbw, l.w.output, e.eager))

\* A variant without the length check; C6 tells the two apart.
RawLengthIgnored(len_written, expected_length) == TRUE

RawLengthOk(len_written, expected_length) == len_written = expected_length

\* The checks after ptbw_flush: the length, then the digest.
RawWriteVerify(l, resource) ==
    IF l.rc < 0 THEN Fail(l.w, "raw_write: read or write failed")
    ELSE IF ~RawLengthOk(l.len_written, sparse_file_data_size(resource.map))
    THEN (IF l.len_written = 0
          THEN Fail(l.w, "raw_write didn't write anything. Was it called twice in an on-resource?")
          ELSE Fail(l.w, "raw_write wrote fewer bytes than it should have written"))
    ELSE IF ~HashMatches(l.hash, resource)
    THEN Fail(Logged(l.w, Event("digest_mismatch", "raw_write", l.len_written)),
              "raw_write detected blake2b digest mismatch")
    ELSE Ok(Logged(l.w, Event("digest_ok", "raw_write", l.len_written)))

raw_write_run(w, f, e) ==
    IF f.type # FUN_CONTEXT_FILE THEN Abort(w)
    ELSE IF ~HasResource(f.title)
    THEN Fail(w, "raw_write can't find matching file-resource")
    ELSE IF ~HashUsable(cfg.resources[f.title])
    THEN Fail(w, "invalid blake2b-256 hash")
    ELSE RawWriteVerify(
             RawWriteFlush(
                 RawWriteHole(
                     raw_write_loop([w |-> w, ptbw |-> ptbw_init,
                                     hash |-> crypto_generichash_init,
                                     len_written |-> 0, n |-> 1, rc |-> 0],
                                    cfg.resources[f.title].map, RawDestOffset(f), e),
                     cfg.resources[f.title].map, RawDestOffset(f), e),
                 e),
             cfg.resources[f.title])

\* A variant that measures the resource by reading it from the stream; C27
\* tells the two apart.
block_write_compute_progress_reading(w, f) ==
    IF f.type # FUN_CONTEXT_FILE THEN Abort(w)
    ELSE IF ~HasResource(f.title) THEN Fail(w, "can't find matching file-resource")
    ELSE Ok([w EXCEPT !.progress.total_units =
                        @ + sparse_file_data_size(cfg.resources[f.title].map),
                      !.stream.pos =
                        @ + sparse_file_data_size(cfg.resources[f.title].map)])

block_write_compute_progress(w, f) ==
    IF f.type # FUN_CONTEXT_FILE THEN Abort(w)
    ELSE IF ~HasResource(f.title) THEN Fail(w, "can't find matching file-resource")
    ELSE Ok([w EXCEPT !.progress.total_units =
                @ + sparse_file_data_size(cfg.resources[f.title].map)])

raw_write_compute_progress(w, f) == block_write_compute_progress(w, f)

----------------------------------------------------------------------------
(* raw_memset *)

\* int count = strtol(argv[2], NULL, 0): the value, narrowed to int.  (For
\* the counts validate accepts, count * FWUP_BLOCK_SIZE is within int.)
raw_memset_compute_progress(w, f) ==
    Ok([w EXCEPT !.progress.total_units =
           @ + CastInt(strtoull(Arg(f, 2))) * FWUP_BLOCK_SIZE])

MemsetDestOffset(f) == strtoull(Arg(f, 1)) * FWUP_BLOCK_SIZE

\* Block after block of the byte, each through block_cache_pwrite
\* (streamed = true), each reported as FWUP_BLOCK_SIZE units.
RECURSIVE raw_memset_loop(_, _, _, _, _, _)
raw_memset_loop(w, dest_offset, offset, count, value, e) ==
    IF offset >= count THEN w
    ELSE raw_memset_loop(
             progress_report(
                 Logged([w EXCEPT !.output =
                            block_cache_pwrite(@, Fill(FWUP_BLOCK_SIZE, value % 256),
                                               dest_offset + offset, TRUE, e.eager)],
                        PwriteEvent("raw_memset", dest_offset + offset,
                                    Fill(FWUP_BLOCK_SIZE, value % 256))),
                 FWUP_BLOCK_SIZE),
             dest_offset, offset + FWUP_BLOCK_SIZE, count, value, e)

raw_memset_run(w, f, e) ==
    Ok(raw_memset_loop(w, MemsetDestOffset(f), 0,
                       strtoull(Arg(f, 2)) * FWUP_BLOCK_SIZE, strtoull(Arg(f, 3)), e))

----------------------------------------------------------------------------
(* FAT actions *)

\* "Arbitrarily count as 1 unit".
one_unit_compute_progress(w, f) == Ok([w EXCEPT !.progress.total_units = @ + 1])

\* The result of a FAT adapter call, folded into the world.
FatInto(w, r) == [w EXCEPT !.fat = r.fat]

fat_mkfs_run(w, f, e) ==
    LET r == fatfs_mkfs(w.fat, strtoull(Arg(f, 1)), strtoull(Arg(f, 2)))
    IN  IF r.rc < 0 THEN Fail(w, "fat_mkfs failed")
        ELSE Ok(progress_report(FatInto(w, r), 1))

\* What fat_attrib_run returns when fatfs_attrib fails.
FatAttribFailure == 1

fat_attrib_run(w, f, e) ==
    LET r == fatfs_attrib(w.fat, strtoull(Arg(f, 1)), Arg(f, 2), Arg(f, 3))
    IN  IF r.rc < 0
        THEN [rc |-> FatAttribFailure, w |-> [w EXCEPT !.last_error = "fat_attrib failed"]]
        ELSE Ok(progress_report(FatInto(w, r), 1))

fat_write_compute_progress(w, f) ==
    IF f.type # FUN_CONTEXT_FILE THEN Abort(w)
    ELSE IF ~HasResource(f.title) THEN Fail(w, "can't find matching file-resource")
    ELSE LET expected_length == sparse_file_data_size(cfg.resources[f.title].map)
         IN  Ok([w EXCEPT !.progress.total_units =
                    @ + (IF expected_length = 0 THEN 1 ELSE expected_length)])

\* The for (;;) loop of fat_write_run.
RECURSIVE fat_write_loop(_, _, _, _, _)
RECURSIVE FatWriteChunk(_, _, _, _, _, _, _)
FatWriteChunk(l, rd, pw, sfm, block_offset, path, e) ==
    IF pw.rc < 0
    THEN [l EXCEPT !.w = Logged([l.w EXCEPT !.stream = rd.stream],
                                OffsetEvent("sink_refused", "fat_write", rd.len,
                                            CastInt(rd.offset), rd.offset)),
                   !.hash = crypto_generichash_update(l.hash, rd.buffer),
                   !.rc = -1]
    ELSE fat_write_loop(
             [w |-> progress_report(
                       Logged([l.w EXCEPT !.stream = rd.stream, !.fat = pw.fat],
                              OffsetEvent("sink_data", "fat_write", rd.len,
                                          CastInt(rd.offset), rd.offset)),
                       rd.len),
              hash |-> crypto_generichash_update(l.hash, rd.buffer),
              len_written |-> l.len_written + rd.len,
              n |-> l.n + 1, rc |-> 0],
             sfm, block_offset, path, e)

FatWriteRead(l, rd, sfm, block_offset, path, e) ==
    IF rd.len = 0 THEN l
    ELSE FatWriteChunk(l, rd,
                       fatfs_pwrite(l.w.fat, block_offset, path, CastInt(rd.offset),
                                    rd.buffer),
                       sfm, block_offset, path, e)

\* The for (;;) loop of fat_write_run.
fat_write_loop(l, sfm, block_offset, path, e) ==
    FatWriteRead(l, stream_read(l.w.stream, sfm, arch, PlanLen(e, l.n)),
                 sfm, block_offset, path, e)

\* The "Handle zero-length file" branch is taken for this total size.
FatWriteIsZeroLength(expected_length) == expected_length = 0

FatHoleWritten(l, hw, sfm) ==
    IF hw.rc < 0
    THEN [l EXCEPT !.w = Logged(l.w, OffsetEvent("sink_refused", "fat_write", 0,
                                                 CastInt(sparse_file_size(sfm)),
                                                 sparse_file_size(sfm))),
                   !.rc = -1]
    ELSE [l EXCEPT !.w = Logged(FatInto(l.w, hw),
                                OffsetEvent("sink_hole", "fat_write", 0,
                                            CastInt(sparse_file_size(sfm)),
                                            sparse_file_size(sfm)))]

\* if (ending_hole): a zero-length write at the file's total size grows it.
FatWriteHole(l, sfm, block_offset, path) ==
    IF l.rc < 0 \/ sparse_ending_hole_size(sfm) = 0 THEN l
    ELSE FatHoleWritten(l,
                        fatfs_pwrite(l.w.fat, block_offset, path,
                                     CastInt(sparse_file_size(sfm)), <<>>),
                        sfm)

\* The checks after the loop: the length, then the digest.
FatWriteVerify(l, resource) ==
    IF l.rc < 0 THEN Fail(l.w, "fat_write: read or write failed")
    ELSE IF l.len_written # sparse_file_data_size(resource.map)
    THEN (IF l.len_written = 0
          THEN Fail(l.w, "fat_write didn't write anything. Was it called twice in an on-resource? Try fat_cp instead.")
          ELSE Fail(l.w, "fat_write didn't write the expected amount"))
    ELSE IF ~HashMatches(l.hash, resource)
    THEN Fail(Logged(l.w, Event("digest_mismatch", "fat_write", l.len_written)),
              "fat_write detected blake2b hash mismatch")
    ELSE Ok(Logged(l.w, Event("digest_ok", "fat_write", l.len_written)))

\* Zero-length file: fatfs_touch, one unit of progress, goto cleanup.
FatWriteTouched(w, tc, path) ==
    IF tc.rc < 0 THEN Fail(w, "fat_write: fatfs_touch failed")
    ELSE Ok(progress_report(Logged(FatInto(w, tc), Event("fat_touch", path, 0)), 1))

\* After fatfs_rm of the old file (w is the world with it removed).
FatWriteBody(w, f, e, resource) ==
    IF FatWriteIsZeroLength(sparse_file_size(resource.map))
    THEN FatWriteTouched(w, fatfs_touch(w.fat, strtoull(Arg(f, 1)), Arg(f, 2)),
                         Arg(f, 2))
    ELSE FatWriteVerify(
             FatWriteHole(
                 fat_write_loop([w |-> w, hash |-> crypto_generichash_init,
                                 len_written |-> 0, n |-> 1, rc |-> 0],
                                resource.map, strtoull(Arg(f, 1)), Arg(f, 2), e),
                 resource.map, strtoull(Arg(f, 1)), Arg(f, 2)),
             resource)

FatWriteRemoved(w, rm, f, e) ==
    IF rm.rc < 0 THEN Fail(w, "fat_write: fatfs_rm failed")
    ELSE FatWriteBody(Logged(FatInto(w, rm), Event("fat_rm", Arg(f, 2), 0)), f, e,
                      cfg.resources[f.title])

\* A variant that leaves an existing file in place; C26 tells the two apart.
fat_write_run_over(w, f, e) ==
    IF ~HasResource(f.title) THEN Fail(w, "fat_write can't find file-resource")
    ELSE IF ~HashUsable(cfg.resources[f.title])
    THEN Fail(w, "invalid blake2b-256 hash")
    ELSE FatWriteRemoved(w, fatfs_touch(w.fat, strtoull(Arg(f, 1)), Arg(f, 2)), f, e)

fat_write_run(w, f, e) ==
    IF ~HasResource(f.title) THEN Fail(w, "fat_write can't find file-resource")
    ELSE IF ~HashUsable(cfg.resources[f.title])
    THEN Fail(w, "invalid blake2b-256 hash")
    ELSE FatWriteRemoved(w, fatfs_rm(w.fat, strtoull(Arg(f, 1)), Arg(f, 2), FALSE),
                         f, e)

\* The characters of the names that reach fat_mv_run and fat_rm_run.
NameChars ==
    [n \in {"fat_mv", "fat_mv!", "fat_rm", "fat_rm!"} |->
        CASE n = "fat_mv"  -> <<"f", "a", "t", "_", "m", "v">>
          [] n = "fat_mv!" -> <<"f", "a", "t", "_", "m", "v", "!">>
          [] n = "fat_rm"  -> <<"f", "a", "t", "_", "r", "m">>
          [] n = "fat_rm!" -> <<"f", "a", "t", "_", "r", "m", "!">>]

\* name[i] of a C string: a character, the terminating NUL, or a read past
\* the end of the array.
NameByte(name, i) ==
    IF i < Len(NameChars[name]) THEN NameChars[name][i + 1]
    ELSE IF i = Len(NameChars[name]) THEN "NUL"
    ELSE "past the end"

\* A variant that reads the last character of the base name; C14 tells the
\* two apart.
NameByte5(name) == NameByte(name, 5)

\* argv[0][6]: the byte after the six characters of "fat_mv" or "fat_rm".
NameByte6(name) == NameByte(name, 6)

Flag(b) == IF b THEN 1 ELSE 0

fat_mv_run(w, f, e) ==
    LET force == (NameByte6(Arg(f, 0)) = "!")
        r == fatfs_mv(w.fat, strtoull(Arg(f, 1)), Arg(f, 2), Arg(f, 3), force)
        l == Logged(w, Event2("fatfs_mv", Arg(f, 2), Flag(force), strtoull(Arg(f, 1))))
    IN  IF r.rc < 0 THEN Fail(l, "fat_mv failed")
        ELSE Ok(progress_report(FatInto(l, r), 1))

fat_rm_run(w, f, e) ==
    LET file_must_exist == (NameByte6(Arg(f, 0)) = "!")
        r == fatfs_rm(w.fat, strtoull(Arg(f, 1)), Arg(f, 2), file_must_exist)
        l == Logged(w, Event2("fatfs_rm", Arg(f, 2), Flag(file_must_exist),
                              strtoull(Arg(f, 1))))
    IN  IF r.rc < 0 THEN Fail(l, "fat_rm failed")
        ELSE Ok(progress_report(FatInto(l, r), 1))

fat_cp_run(w, f, e) ==
    LET r == fatfs_cp(w.fat, strtoull(Arg(f, 1)), Arg(f, 2), Arg(f, 3))
    IN  IF r.rc < 0 THEN Fail(w, "fat_cp failed")
        ELSE Ok(progress_report(FatInto(w, r), 1))

fat_mkdir_run(w, f, e) ==
    LET r == fatfs_mkdir(w.fat, strtoull(Arg(f, 1)), Arg(f, 2))
    IN  IF r.rc < 0 THEN Fail(w, "fat_mkdir failed")
        ELSE Ok(progress_report(FatInto(w, r), 1))

\* fat_setlabel_run returns without reporting progress.
FatSetlabelUnits == 0

fat_setlabel_run(w, f, e) ==
    LET r == fatfs_setlabel(w.fat, strtoull(Arg(f, 1)), Arg(f, 2))
    IN  IF r.rc < 0 THEN Fail(w, "fat_setlabel failed")
        ELSE Ok(progress_report(FatInto(w, r), FatSetlabelUnits))

fat_touch_run(w, f, e) ==
    LET r == fatfs_touch(w.fat, strtoull(Arg(f, 1)), Arg(f, 2))
    IN  IF r.rc < 0 THEN Fail(w, "fat_touch failed")
        ELSE Ok(progress_report(FatInto(w, r), 1))

----------------------------------------------------------------------------
(* mbr_write and trim *)

mbr_write_run(w, f, e) ==
    IF Arg(f, 1) \notin cfg.mbr THEN Fail(w, "mbr_create_cfg failed")
    ELSE Ok(progress_report(
               Logged([w EXCEPT !.output =
                          block_cache_pwrite(@, mbr_create_cfg(Arg(f, 1)), 0, FALSE, e.eager)],
                      PwriteEvent("mbr_write", 0, mbr_create_cfg(Arg(f, 1)))),
               1))

\* A variant that rounds up; C23 tells the two apart.
TrimUnitsRoundedUp(block_count) == (block_count + 255) \div 256

\* One unit per 128 KiB: 256 blocks.
TrimUnits(block_count) == block_count \div 256

trim_compute_progress(w, f) ==
    Ok([w EXCEPT !.progress.total_units = @ + TrimUnits(strtoull(Arg(f, 2)))])

trim_run(w, f, e) ==
    LET block_offset == strtoull(Arg(f, 1))
        block_count  == strtoull(Arg(f, 2))
        offset == block_offset * FWUP_BLOCK_SIZE
        count  == block_offset * FWUP_BLOCK_SIZE
    IN  Ok(progress_report(
               Logged([w EXCEPT !.output = block_cache_trim(@, offset, count, TRUE)],
                      Event2("trim", "hard", offset, count)),
               TrimUnits(block_count)))

----------------------------------------------------------------------------
(* U-Boot environment actions *)

HasUbootSection(name) == name \in DOMAIN cfg.uboot

\* env.block_offset * FWUP_BLOCK_SIZE: where the environment block lies.
UbootEnvOffset(env) == env.block_offset * FWUP_BLOCK_SIZE

UbootWrite(w, env, buffer, who, e) ==
    Logged([w EXCEPT !.output =
               block_cache_pwrite(@, buffer, UbootEnvOffset(env), FALSE, e.eager)],
           PwriteEvent(who, UbootEnvOffset(env), buffer))

UbootRead(w, env, who) ==
    Logged(w, Event2("pread", who, env.env_size, UbootEnvOffset(env)))

\* A variant that writes the clean environment whatever it read; C11 tells
\* the two apart.
uboot_recover_run_always(w, f, e) ==
    IF ~HasUbootSection(Arg(f, 1)) THEN Fail(w, "uboot_env_create_cfg failed")
    ELSE
    LET env == uboot_env_create_cfg(cfg.uboot[Arg(f, 1)])
        rd  == block_cache_pread(w.output, env.env_size, UbootEnvOffset(env))
        w1  == [UbootRead(w, env, "uboot_recover") EXCEPT !.seen = rd.buffer]
        wr  == uboot_env_write(env)
    IN  IF rd.rc < 0 THEN Fail(w, "unexpected error reading uboot environment")
        ELSE Ok(progress_report(UbootWrite(w1, env, wr.buffer, "uboot_recover", e), 1))

uboot_recover_run(w, f, e) ==
    IF ~HasUbootSection(Arg(f, 1)) THEN Fail(w, "uboot_env_create_cfg failed")
    ELSE
    LET env       == uboot_env_create_cfg(cfg.uboot[Arg(f, 1)])
        clean_env == uboot_env_create_cfg(cfg.uboot[Arg(f, 1)])
        rd   == block_cache_pread(w.output, env.env_size, UbootEnvOffset(env))
        w1   == [UbootRead(w, env, "uboot_recover") EXCEPT !.seen = rd.buffer]
        dec  == uboot_env_read(env, rd.buffer)
        wr   == uboot_env_write(clean_env)
    IN  IF rd.rc < 0 THEN Fail(w, "unexpected error reading uboot environment")
        ELSE IF dec.rc < 0
        THEN (IF wr.rc < 0 THEN Fail(w1, "uboot_env_write failed")
              ELSE Ok(progress_report(
                         UbootWrite(w1, env, wr.buffer, "uboot_recover", e), 1)))
        ELSE Ok(progress_report(w1, 1))

uboot_clearenv_run(w, f, e) ==
    IF ~HasUbootSection(Arg(f, 1)) THEN Fail(w, "uboot_env_create_cfg failed")
    ELSE
    LET env == uboot_env_create_cfg(cfg.uboot[Arg(f, 1)])
        wr  == uboot_env_write(env)
    IN  IF wr.rc < 0 THEN Fail(w, "uboot_env_write failed")
        ELSE Ok(progress_report(UbootWrite(w, env, wr.buffer, "uboot_clearenv", e), 1))

\* A variant that treats a corrupt block as an empty environment, as
\* uboot_recover does; C12 tells the two apart.
UbootModifyTolerant(w, f, e, who, unset) ==
    IF ~HasUbootSection(Arg(f, 1)) THEN Fail(w, "uboot_env_create_cfg failed")
    ELSE
    LET env  == uboot_env_create_cfg(cfg.uboot[Arg(f, 1)])
        rd   == block_cache_pread(w.output, env.env_size, UbootEnvOffset(env))
        w1   == [UbootRead(w, env, who) EXCEPT !.seen = rd.buffer]
        dec  == uboot_env_read(env, rd.buffer)
        old  == IF dec.rc < 0 THEN env ELSE dec.env
        env2 == IF unset
                THEN uboot_env_unsetenv(old, StrBytes[Arg(f, 2)])
                ELSE uboot_env_setenv(old, StrBytes[Arg(f, 2)], StrBytes[Arg(f, 3)])
        wr   == uboot_env_write(env2)
    IN  IF rd.rc < 0 THEN Fail(w, "unexpected error reading uboot environment")
        ELSE IF wr.rc < 0 THEN Fail(w1, "uboot_env_write failed")
        ELSE Ok(progress_report(UbootWrite(w1, env, wr.buffer, who, e), 1))

\* A variant that changes a fresh environment and not the one it read;
\* C13 tells the two apart.
UbootModifyFresh(w, f, e, who, unset) ==
    IF ~HasUbootSection(Arg(f, 1)) THEN Fail(w, "uboot_env_create_cfg failed")
    ELSE
    LET env  == uboot_env_create_cfg(cfg.uboot[Arg(f, 1)])
        rd   == block_cache_pread(w.output, env.env_size, UbootEnvOffset(env))
        w1   == [UbootRead(w, env, who) EXCEPT !.seen = rd.buffer]
        dec  == uboot_env_read(env, rd.buffer)
        env2 == IF unset
                THEN uboot_env_unsetenv(env, StrBytes[Arg(f, 2)])
                ELSE uboot_env_setenv(env, StrBytes[Arg(f, 2)], StrBytes[Arg(f, 3)])
        wr   == uboot_env_write(env2)
    IN  IF rd.rc < 0 THEN Fail(w, "unexpected error reading uboot environment")
        ELSE IF dec.rc < 0 THEN Fail(w1, "uboot_env_read failed")
        ELSE IF wr.rc < 0 THEN Fail(w1, "uboot_env_write failed")
        ELSE Ok(progress_report(UbootWrite(w1, env, wr.buffer, who, e), 1))

\* The read-modify-write of uboot_setenv_run and uboot_unsetenv_run; change
\* is the environment after uboot_env_setenv / uboot_env_unsetenv.
UbootModify(w, f, e, who, unset) ==
    IF ~HasUbootSection(Arg(f, 1)) THEN Fail(w, "uboot_env_create_cfg failed")
    ELSE
    LET env  == uboot_env_create_cfg(cfg.uboot[Arg(f, 1)])
        rd   == block_cache_pread(w.output, env.env_size, UbootEnvOffset(env))
        w1   == [UbootRead(w, env, who) EXCEPT !.seen = rd.buffer]
        dec  == uboot_env_read(env, rd.buffer)
        env2 == IF unset
                THEN uboot_env_unsetenv(dec.env, StrBytes[Arg(f, 2)])
                ELSE uboot_env_setenv(dec.env, StrBytes[Arg(f, 2)], StrBytes[Arg(f, 3)])
        wr   == uboot_env_write(env2)
    IN  IF rd.rc < 0 THEN Fail(w, "unexpected error reading uboot environment")
        ELSE IF dec.rc < 0 THEN Fail(w1, "uboot_env_read failed")
        ELSE IF wr.rc < 0 THEN Fail(w1, "uboot_env_write failed")
        ELSE Ok(progress_report(UbootWrite(w1, env, wr.buffer, who, e), 1))

uboot_setenv_run(w, f, e) == UbootModify(w, f, e, "uboot_setenv", FALSE)

uboot_unsetenv_run(w, f, e) == UbootModify(w, f, e, "uboot_unsetenv", TRUE)

----------------------------------------------------------------------------
(* error and info *)

no_units_compute_progress(w, f) == Ok(w)

error_run(w, f, e) == Fail(w, Arg(f, 1))

info_run(w, f, e) == Ok(Logged(w, Event("warnx", Arg(f, 1), 0)))

----------------------------------------------------------------------------
(* path_write, pipe_write and execute *)

\* The for (;;) loop of fd_write_run.
RECURSIVE fd_write_loop(_, _, _, _, _)
RECURSIVE FdWriteChunk(_, _, _, _, _, _, _)
FdWriteChunk(l, rd, wr, sfm, cmd_name, output_fd, e) ==
    IF wr.written < 0
    THEN [l EXCEPT !.w.stream = rd.stream,
                   !.hash = crypto_generichash_update(l.hash, rd.buffer),
                   !.rc = -1]
    ELSE fd_write_loop(
             [w |-> progress_report(
                       Logged([l.w EXCEPT !.stream = rd.stream, !.host = wr.host],
                              Event2("write", cmd_name, output_fd, wr.written)),
                       rd.len),
              hash |-> crypto_generichash_update(l.hash, rd.buffer),
              len_written |-> l.len_written + wr.written,
              n |-> l.n + 1, rc |-> 0],
             sfm, cmd_name, output_fd, e)

FdWriteRead(l, rd, sfm, cmd_name, output_fd, e) ==
    IF rd.len = 0 THEN l
    ELSE FdWriteChunk(l, rd,
                      host_write(l.w.host, output_fd, rd.buffer,
                                 IF e.short THEN rd.len - 1 ELSE rd.len),
                      sfm, cmd_name, output_fd, e)

\* The for (;;) loop of fd_write_run.
fd_write_loop(l, sfm, cmd_name, output_fd, e) ==
    FdWriteRead(l, stream_read(l.w.stream, sfm, arch, PlanLen(e, l.n)),
                sfm, cmd_name, output_fd, e)

FdHoleWritten(l, hw, cmd_name, output_fd) ==
    IF hw.written < 0 THEN [l EXCEPT !.rc = -2]
    ELSE [l EXCEPT !.w = Logged([l.w EXCEPT !.host = hw.host],
                                Event2("write", cmd_name, output_fd, hw.written))]

FdWriteHole(l, sfm, cmd_name, output_fd) ==
    IF l.rc < 0 \/ sparse_ending_hole_size(sfm) <= 0 THEN l
    ELSE FdHoleWritten(l,
                       host_write(l.w.host, output_fd,
                                  Zeros(Min(FWUP_BLOCK_SIZE, sparse_ending_hole_size(sfm))),
                                  Min(FWUP_BLOCK_SIZE, sparse_ending_hole_size(sfm))),
                       cmd_name, output_fd)

\* No length check here: only the digest is compared.
FdWriteVerify(l, resource, cmd_name) ==
    IF l.rc = -1 THEN Fail(l.w, cmd_name \o " couldn't write")
    ELSE IF l.rc = -2 THEN Fail(l.w, cmd_name \o " couldn't write to hole")
    ELSE IF ~HashMatches(l.hash, resource)
    THEN Fail(Logged(l.w, Event("digest_mismatch", cmd_name, l.len_written)),
              "raw_write detected blake2b digest mismatch")
    ELSE Ok(Logged(l.w, Event("digest_ok", cmd_name, l.len_written)))

fd_write_run(cmd_name, w, f, output_fd, e) ==
    IF f.type # FUN_CONTEXT_FILE THEN Abort(w)
    ELSE IF ~HasResource(f.title)
    THEN Fail(w, cmd_name \o " can't find matching file-resource")
    ELSE IF ~HashUsable(cfg.resources[f.title])
    THEN Fail(w, "invalid blake2b-256 hash")
    ELSE FdWriteVerify(
             FdWriteHole(
                 fd_write_loop([w |-> w, hash |-> crypto_generichash_init,
                                len_written |-> 0, n |-> 1, rc |-> 0],
                               cfg.resources[f.title].map, cmd_name, output_fd, e),
                 cfg.resources[f.title].map, cmd_name, output_fd),
             cfg.resources[f.title], cmd_name)

\* cleanup of path_write_run: if (output_fd) close(output_fd).
PathWriteCleanup(r, output_fd) ==
    IF output_fd # 0
    THEN [r EXCEPT !.w = Logged([r.w EXCEPT !.host = host_close(@, output_fd)],
                                Event("close", "path_write", output_fd))]
    ELSE r

\* The goto cleanup of the unsafe check jumps over the initialization of
\* output_fd: cleanup reads whatever the variable holds (e.garbage).
path_write_run(w, f, e) ==
    IF f.type # FUN_CONTEXT_FILE THEN Abort(w)
    ELSE IF ~fwup_unsafe
    THEN PathWriteCleanup(Fail(w, "path_write requires --unsafe"), e.garbage)
    ELSE LET op == host_open(w.host, Arg(f, 1))
             w1 == Logged([w EXCEPT !.host = op.host], Event("open", Arg(f, 1), op.fd))
         IN  IF op.fd = 0
             THEN PathWriteCleanup(Fail(w1, "raw_write can't open output file"), op.fd)
             ELSE PathWriteCleanup(fd_write_run("path_write", w1, f, op.fd, e), op.fd)

\* popen(): the command runs with a pipe to it on the lowest free descriptor;
\* fd -1 stands for a NULL FILE *.
host_popen(h, cmd) == host_open(h, cmd)

\* cleanup of pipe_write_run and execute_run: if (cmd_pipe) pclose(cmd_pipe).
PipeCleanup(r, cmd_pipe, who) ==
    IF cmd_pipe # 0
    THEN [r EXCEPT !.w = Logged([r.w EXCEPT !.host = host_close(@, cmd_pipe)],
                                Event("pclose", who, cmd_pipe))]
    ELSE r

\* A FILE * is modelled by its descriptor; the goto cleanup of the unsafe
\* check jumps over the initialization of cmd_pipe.
pipe_write_run(w, f, e) ==
    IF f.type # FUN_CONTEXT_FILE THEN Abort(w)
    ELSE IF ~fwup_unsafe
    THEN PipeCleanup(Fail(w, "pipe_write requires --unsafe"), e.garbage, "pipe_write")
    ELSE LET op == host_popen(w.host, Arg(f, 1))
             w1 == Logged([w EXCEPT !.host = op.host], Event("popen", Arg(f, 1), op.fd))
             cmd_pipe == IF op.fd < 0 THEN 0 ELSE op.fd
         IN  IF cmd_pipe = 0
             THEN PipeCleanup(Fail(w1, "pipe_write can't run command"), cmd_pipe,
                              "pipe_write")
             ELSE PipeCleanup(fd_write_run("pipe_write", w1, f, op.fd, e), cmd_pipe,
                              "pipe_write")

\* fread(buffer, 512, 1, cmd_pipe) returns the number of whole items read:
\* 1 when the command has a full buffer of output left, else 0.
ExecuteFread(left) == IF left >= 512 THEN 1 ELSE 0

\* while (fread(...) == 512): the loop goes on, and forwards the buffer,
\* when the item count fread returned is 512.
execute_continues(items) == items = 512

\* while (fread(...) == 512) fwup_warnx(buffer): each pass of the loop
\* forwards one buffer; every fread takes up to 512 bytes from the pipe,
\* the fread that ends the loop too.
RECURSIVE execute_loop(_, _, _)
execute_loop(w, cmd, left) ==
    IF execute_continues(ExecuteFread(left))
    THEN execute_loop(Logged(Logged(w, Event2("fread", cmd, Min(left, 512),
                                              ExecuteFread(left))),
                             Event("warnx", cmd, 512)),
                      cmd, left - 512)
    ELSE Logged(w, Event2("fread", cmd, Min(left, 512), ExecuteFread(left)))

execute_run(w, f, e) ==
    IF ~fwup_unsafe
    THEN PipeCleanup(Fail(w, "pipe_write requires --unsafe"), e.garbage, "execute")
    ELSE LET op == host_popen(w.host, Arg(f, 1))
             w1 == Logged([w EXCEPT !.host = op.host], Event("popen", Arg(f, 1), op.fd))
             cmd_pipe == IF op.fd < 0 THEN 0 ELSE op.fd
         IN  IF cmd_pipe = 0
             THEN PipeCleanup(Fail(w1, "execute can't run command"), cmd_pipe, "execute")
             ELSE PipeCleanup(Ok(execute_loop(w1, Arg(f, 1), e.cmd_output)), cmd_pipe,
                              "execute")

----------------------------------------------------------------------------
(* FUN_validate.  Each checks, in this order: the context type (the        *)
(* functions only usable in an on-resource), argc, then the operands.      *)
(* ERR_RETURN sets the last error and returns -1; the messages are         *)
(* abridged to the kind of the failure.                                    *)

INT32_MAX == 2 ^ (INT_BITS - 1) - 1

\* Operands that strtoull converts to ULLONG_MAX: a negated or too large
\* numeral.
ConvertsToMax == {"-1"}

CHECK_ARG_UINT64(arg) == arg \notin ConvertsToMax

CHECK_ARG_UINT64_MAX(arg, max_val) == arg \notin ConvertsToMax /\ strtoull(arg) <= max_val

\* A variant that compares the block count with the byte limit.
CountMaxInBytes == INT32_MAX

\* INT32_MAX / FWUP_BLOCK_SIZE: the largest block count raw_memset and trim
\* accept.
CountMax == INT32_MAX \div FWUP_BLOCK_SIZE

FileOnlyFuns == {"raw_write", "fat_write", "path_write", "pipe_write"}

\* A variant that takes every function in any context.
TypeIgnored(fun, type) == TRUE

\* fctx->type != FUN_CONTEXT_FILE is an error for the FILE-only functions.
TypeOk(fun, type) == fun \in FileOnlyFuns => type = FUN_CONTEXT_FILE

\* The argc each FUN_validate requires: one more than its operands.
RequiredArgc(fun) ==
    CASE fun \in {"raw_write", "mbr_write", "uboot_clearenv", "uboot_recover",
                  "error", "info", "path_write", "pipe_write", "execute"} -> 2
      [] fun \in {"fat_mkfs", "fat_write", "fat_rm", "fat_mkdir", "fat_setlabel",
                  "fat_touch", "trim", "uboot_unsetenv"} -> 3
      [] fun \in {"raw_memset", "fat_attrib", "fat_mv", "fat_cp", "uboot_setenv"} -> 4

\* A variant that accepts surplus arguments.
ArgcAtLeast(argc, required) == argc >= required

\* fctx->argc != n is an error.
ArgcOk(argc, required) == argc = required

\* The characters of the attribute operands that occur.
AttribChars ==
    [a \in {"S", "0", "255", "256", "Sx"} |->
        CASE a = "S" -> <<"S">> [] a = "0" -> <<"0">> [] a = "255" -> <<"2", "5", "5">>
          [] a = "256" -> <<"2", "5", "6">> [] a = "Sx" -> <<"S", "x">>]

\* The loop over *attrib of fat_attrib_validate.
AttribOk(attrib) ==
    \A i \in 1..Len(AttribChars[attrib]) :
        AttribChars[attrib][i] \in {"S", "s", "H", "h", "R", "r"}

\* The CHECK_ARG_ lines and section lookups of each FUN_validate.
OperandsOk(fun, f) ==
    CASE fun = "raw_memset" ->
             /\ CHECK_ARG_UINT64(Arg(f, 1))
             /\ CHECK_ARG_UINT64_MAX(Arg(f, 2), CountMax)
             /\ CHECK_ARG_UINT64_MAX(Arg(f, 3), 255)
      [] fun = "trim" ->
             /\ CHECK_ARG_UINT64(Arg(f, 1))
             /\ CHECK_ARG_UINT64_MAX(Arg(f, 2), CountMax)
      [] fun = "fat_mkfs" -> CHECK_ARG_UINT64(Arg(f, 1)) /\ CHECK_ARG_UINT64(Arg(f, 2))
      [] fun = "fat_attrib" -> CHECK_ARG_UINT64(Arg(f, 1)) /\ AttribOk(Arg(f, 3))
      [] fun \in {"raw_write", "fat_write", "fat_mv", "fat_rm", "fat_cp", "fat_mkdir",
                  "fat_setlabel", "fat_touch"} -> CHECK_ARG_UINT64(Arg(f, 1))
      [] fun = "mbr_write" -> Arg(f, 1) \in cfg.mbr
      [] fun \in {"uboot_clearenv", "uboot_setenv", "uboot_unsetenv", "uboot_recover"} ->
             HasUbootSection(Arg(f, 1))
      [] fun \in {"error", "info", "path_write", "pipe_write", "execute"} -> TRUE

validate_of(fun, w, f) ==
    IF ~TypeOk(fun, f.type) THEN Fail(w, "only usable in on-resource")
    ELSE IF ~ArgcOk(f.argc, RequiredArgc(fun)) THEN Fail(w, "wrong number of parameters")
    ELSE IF ~OperandsOk(fun, f) THEN Fail(w, "parameter not acceptable")
    ELSE Ok(w)

----------------------------------------------------------------------------
(* The action table and the three entry points *)

fun_table ==
    <<"raw_write", "raw_memset", "fat_attrib", "fat_mkfs", "fat_write",
      "fat_mv", "fat_mv!", "fat_rm", "fat_rm!", "fat_cp", "fat_mkdir",
      "fat_setlabel", "fat_touch", "mbr_write", "trim", "uboot_clearenv",
      "uboot_setenv", "uboot_unsetenv", "uboot_recover", "error", "info",
      "path_write", "pipe_write", "execute">>

\* FUN_INFO(FUN) and FUN_BANG_INFO(FUN): the entry's name and the FUN whose
\* _validate, _compute_progress and _run it holds.
fun_info(i) ==
    [name |-> fun_table[i],
     fun  |-> CASE fun_table[i] = "fat_mv!" -> "fat_mv"
                [] fun_table[i] = "fat_rm!" -> "fat_rm"
                [] OTHER -> fun_table[i]]

\* A name without the '!' it ends in.
StripBang(name) ==
    CASE name = "fat_cp!" -> "fat_cp" [] name = "trim!" -> "trim" [] OTHER -> name

\* A variant that compares the base names only; C16 tells the two apart.
lookup_base(argc, argv) ==
    IF argc < 1 THEN 0
    ELSE IF \E i \in 1..Len(fun_table) : fun_table[i] = StripBang(argv[1])
    THEN CHOOSE i \in 1..Len(fun_table) : fun_table[i] = StripBang(argv[1])
    ELSE 0

\* The index of the entry named argv[0], or 0 (with the last error set).
lookup(argc, argv) ==
    IF argc < 1 THEN 0
    ELSE IF \E i \in 1..Len(fun_table) : fun_table[i] = argv[1]
    THEN CHOOSE i \in 1..Len(fun_table) : fun_table[i] = argv[1]
    ELSE 0

LookupError(argc) == IF argc < 1 THEN "Not enough parameters" ELSE "Unknown function"

compute_progress_of(name, w, f) ==
    CASE name \in {"raw_write", "path_write", "pipe_write"} ->
             block_write_compute_progress(w, f)
      [] name = "raw_memset" -> raw_memset_compute_progress(w, f)
      [] name = "fat_write" -> fat_write_compute_progress(w, f)
      [] name = "trim" -> trim_compute_progress(w, f)
      [] name \in {"error", "info", "execute"} -> no_units_compute_progress(w, f)
      [] OTHER -> one_unit_compute_progress(w, f)

run_of(name, w, f, e) ==
    CASE name = "raw_write" -> raw_write_run(w, f, e)
      [] name = "raw_memset" -> raw_memset_run(w, f, e)
      [] name = "fat_attrib" -> fat_attrib_run(w, f, e)
      [] name = "fat_mkfs" -> fat_mkfs_run(w, f, e)
      [] name = "fat_write" -> fat_write_run(w, f, e)
      [] name = "fat_mv" -> fat_mv_run(w, f, e)
      [] name = "fat_rm" -> fat_rm_run(w, f, e)
      [] name = "fat_cp" -> fat_cp_run(w, f, e)
      [] name = "fat_mkdir" -> fat_mkdir_run(w, f, e)
      [] name = "fat_setlabel" -> fat_setlabel_run(w, f, e)
      [] name = "fat_touch" -> fat_touch_run(w, f, e)
      [] name = "mbr_write" -> mbr_write_run(w, f, e)
      [] name = "trim" -> trim_run(w, f, e)
      [] name = "uboot_clearenv" -> uboot_clearenv_run(w, f, e)
      [] name = "uboot_setenv" -> uboot_setenv_run(w, f, e)
      [] name = "uboot_unsetenv" -> uboot_unsetenv_run(w, f, e)
      [] name = "uboot_recover" -> uboot_recover_run(w, f, e)
      [] name = "error" -> error_run(w, f, e)
      [] name = "info" -> info_run(w, f, e)
      [] name = "path_write" -> path_write_run(w, f, e)
      [] name = "pipe_write" -> pipe_write_run(w, f, e)
      [] name = "execute" -> execute_run(w, f, e)

fun_validate(w, f) ==
    LET fun == lookup(f.argc, f.argv)
    IN  IF fun = 0 THEN Fail(w, LookupError(f.argc))
        ELSE validate_of(fun_info(fun).fun, w, f)

fun_compute_progress(w, f) ==
    LET fun == lookup(f.argc, f.argv)
    IN  IF fun = 0 THEN Fail(w, LookupError(f.argc))
        ELSE compute_progress_of(fun_info(fun).fun, w, f)

fun_run(w, f, e) ==
    LET fun == lookup(f.argc, f.argv)
    IN  IF fun = 0 THEN Fail(w, LookupError(f.argc))
        ELSE run_of(fun_info(fun).fun, w, f, e)

----------------------------------------------------------------------------
(* The argv slots the action functions read.  fun_apply_funlist sets the    *)
(* slots from argc on to NULL, and the functions hand what they read to     *)
(* strtoull, strtol, the FAT adapter, open, popen or a "%s" format.         *)

\* The indices i of the argv[i] that FUN_compute_progress (phase "progress")
\* and FUN_run (phase "run") read.  raw_write, fat_write, path_write,
\* pipe_write and execute read theirs after their first checks passed,
\* uboot_setenv and uboot_unsetenv read the slots after argv[1] once the
\* environment was read; the others read theirs in their first statements.
ArgvRead(fun, phase) ==
    IF phase = "progress"
    THEN (IF fun \in {"raw_memset", "trim"} THEN {2} ELSE {})
    ELSE IF phase = "run"
    THEN CASE fun \in {"raw_memset", "fat_attrib", "fat_cp", "uboot_setenv"} -> {1, 2, 3}
           [] fun \in {"fat_mkfs", "fat_mkdir", "fat_setlabel", "fat_touch", "trim",
                       "uboot_unsetenv"} -> {1, 2}
           [] fun = "fat_mv" -> {0, 1, 2, 3}
           [] fun \in {"fat_rm", "fat_write"} -> {0, 1, 2}
           [] fun \in {"raw_write", "mbr_write", "uboot_recover", "uboot_clearenv",
                       "error", "info", "path_write", "pipe_write", "execute"} -> {1}
    ELSE {}

\* The call reads an argv slot that holds NULL.
ReadsNull(f, phase) ==
    /\ lookup(f.argc, f.argv) # 0
    /\ \E i \in ArgvRead(fun_info(lookup(f.argc, f.argv)).fun, phase) : Arg(f, i) = NULL

\* What using a NULL string does is undefined: the process is killed by
\* SIGSEGV, or the call goes on with whatever the library makes of it (here:
\* a string that converts to 0 and names no file or section).
NullOutcomes(f, phase) ==
    IF ReadsNull(f, phase) THEN {"SIGSEGV", "goes on"} ELSE {"goes on"}

Segv(w) == [rc |-> -11, w |-> [w EXCEPT !.last_error = "segmentation fault"]]

----------------------------------------------------------------------------
(* fun_apply_funlist, one tuple of the funlist per step *)

World ==
    [output |-> output, fat |-> fat, progress |-> progress, stream |-> stream,
     host |-> host, last_error |-> last_error, log |-> log, seen |-> seen]

\* cfg_opt_getnstr(funlist, ix): the string at the index, or NULL.
cfg_opt_getnstr(list, i) == IF i <= Len(list) THEN list[i] ELSE NULL

\* Whether the phase function's return value makes fun_apply_funlist stop.
ApplyStops(rc) == rc < 0

ChunkPlans == [1..2 -> 1..MaxChunk]

GarbageValues == {0, 3}

\* What the environment may decide during the call of the named action.
EnvChoices(name, phase) ==
    LET streams == phase = "run" /\ name \in {"raw_write", "fat_write", "path_write", "pipe_write"}
        caches  == phase = "run" /\ name \in {"raw_write", "raw_memset"}
        gated   == phase = "run" /\ name \in {"path_write", "pipe_write", "execute"}
    IN  [plan : IF streams THEN ChunkPlans ELSE {<<MaxChunk, MaxChunk>>},
         eager : IF caches THEN BOOLEAN ELSE {FALSE},
         garbage : IF gated /\ ~fwup_unsafe THEN GarbageValues ELSE {0},
         short : IF gated /\ fwup_unsafe /\ name # "execute" THEN BOOLEAN ELSE {FALSE},
         cmd_output : IF gated /\ fwup_unsafe /\ name = "execute" THEN {0, 600} ELSE {0}]

Become(r, f, i, p) ==
    /\ output' = r.w.output
    /\ fat' = r.w.fat
    /\ progress' = r.w.progress
    /\ stream' = r.w.stream
    /\ host' = r.w.host
    /\ last_error' = r.w.last_error
    /\ log' = r.w.log
    /\ seen' = r.w.seen
    /\ fctx' = f
    /\ ix' = i
    /\ pc' = p

\* fctx->argc = strtoul(aritystr, NULL, 0): the value, narrowed to int.
ArityOf(aritystr) == CastInt(strtoul(aritystr))

\* One pass of the while loop of fun_apply_funlist, for fun = fun_compute_progress
\* (pc = "progress") or fun = fun_run (pc = "run").
ApplyTuple ==
    /\ pc \in {"progress", "run"}
    /\ cfg_opt_getnstr(funlist, ix) # NULL
    /\ LET argc == ArityOf(funlist[ix])
           argv == [i \in 1..FUN_MAX_ARGS |->
                       IF i <= argc THEN cfg_opt_getnstr(funlist, ix + i) ELSE NULL]
           f    == [fctx EXCEPT !.argc = argc, !.argv = argv]
       IN  IF argc <= 0 \/ argc > FUN_MAX_ARGS
           THEN Become(Fail(World, "Unexpected argc value in funlist"),
                       [fctx EXCEPT !.argc = argc], ix + 1, "failed")
           ELSE IF \E i \in 1..argc : argv[i] = NULL
           THEN Become(Fail(World, "Unexpected error with funlist"), f,
                       ix + 1 + argc, "failed")
           ELSE \E e \in EnvChoices(argv[1], pc), null \in NullOutcomes(f, pc) :
                   LET r == IF null = "SIGSEGV" THEN Segv(World)
                            ELSE IF pc = "progress" THEN fun_compute_progress(World, f)
                            ELSE fun_run(World, f, e)
                       d == [r EXCEPT !.w = Logged(@, Event(pc, argv[1], r.rc))]
                   IN  Become(d, f, ix + 1 + argc,
                              IF ApplyStops(r.rc) THEN "failed" ELSE pc)
    /\ UNCHANGED <<fwup_unsafe, cfg, arch, funlist>>

\* The progress pass returned 0: the driver runs the funlist.
ProgressDone ==
    /\ pc = "progress"
    /\ cfg_opt_getnstr(funlist, ix) = NULL
    /\ pc' = "run"
    /\ ix' = 1
    /\ UNCHANGED <<fwup_unsafe, cfg, arch, funlist, fctx, output, fat, progress,
                   stream, host, last_error, log, seen>>

\* The run pass returned 0: the driver goes on to flush the block cache.
RunDone ==
    /\ pc = "run"
    /\ cfg_opt_getnstr(funlist, ix) = NULL
    /\ pc' = "flush"
    /\ UNCHANGED <<fwup_unsafe, cfg, arch, funlist, fctx, ix, output, fat, progress,
                   stream, host, last_error, log, seen>>

Flush ==
    /\ pc = "flush"
    /\ output' = block_cache_flush(output)
    /\ pc' = "done"
    /\ UNCHANGED <<fwup_unsafe, cfg, arch, funlist, fctx, ix, fat, progress,
                   stream, host, last_error, log, seen>>

Next == ApplyTuple \/ ProgressDone \/ RunDone \/ Flush

----------------------------------------------------------------------------
(* One call of an entry point on a function context, as the configuration  *)
(* parser calls fun_validate when the firmware file is created.            *)

EntryPoints == {"fun_validate", "fun_compute_progress", "fun_run"}

PhaseOf(entry) ==
    CASE entry = "fun_validate" -> "validate"
      [] entry = "fun_compute_progress" -> "progress"
      [] entry = "fun_run" -> "run"

CallEntry ==
    /\ pc \in EntryPoints
    /\ \E e \in EnvChoices(fctx.argv[1], PhaseOf(pc)),
          null \in NullOutcomes(fctx, PhaseOf(pc)) :
          LET r == CASE null = "SIGSEGV" -> Segv(World)
                     [] pc = "fun_validate" -> fun_validate(World, fctx)
                     [] pc = "fun_compute_progress" -> fun_compute_progress(World, fctx)
                     [] pc = "fun_run" -> fun_run(World, fctx, e)
              d == [r EXCEPT !.w = Logged(@, Event(PhaseOf(pc), fctx.argv[1], r.rc))]
          IN  Become(d, fctx, ix, "returned")
    /\ UNCHANGED <<fwup_unsafe, cfg, arch, funlist>>

NextEntry == CallEntry

----------------------------------------------------------------------------
(* Initial states: a task event's funlist, the manifest entry and archive  *)
(* bytes of the resource it is bound to, and the output before the run.    *)

ArityStr == <<"1", "2", "3", "4", "5", "6", "7", "8", "9">>

\* The parser's flattening: "<argc>", "<name>", "<arg>", ... per action.
RECURSIVE Flatten(_)
Flatten(ts) ==
    IF ts = <<>> THEN <<>>
    ELSE <<ArityStr[Len(Head(ts))]>> \o Head(ts) \o Flatten(Tail(ts))

Funlists(T, n) == {Flatten(ts) : ts \in UNION {[1..k -> T] : k \in 0..n}}

Pattern(n) == [i \in 1..n |-> i]

BadHash == <<"0", "0", "0", "0">>

\* The archive holds the resource's bytes, or one byte less, or a changed byte.
ArchivesFor(m) ==
    LET full == Pattern(sparse_file_data_size(m))
    IN  {full} \cup (IF full = <<>> THEN {}
                     ELSE {SubSeq(full, 1, Len(full) - 1), [full EXCEPT ![1] = 9]})

\* The manifest's digest: of the resource, of what the archive holds, a
\* wrong one, or none.
HashesFor(m, a) ==
    {Blake2bHex(Pattern(sparse_file_data_size(m))), Blake2bHex(a), BadHash, <<>>}

Scenarios(maps) ==
    UNION {UNION {{[map |-> m, arch |-> a, hash |-> h] : h \in HashesFor(m, a)}
                  : a \in ArchivesFor(m)} : m \in maps}

OldFile == <<7, 7, 7, 7, 7, 7>>

FatWithFile == With(<<>>, 0, [EmptyVolume EXCEPT !.files = With(<<>>, "f", OldFile)])

StdDescriptors == [fd \in 0..SinkFd |-> [path |-> IF fd = SinkFd THEN "sink" ELSE "std", pos |-> 0]]

UbootSections == With(<<>>, "env", [block_offset |-> 1, block_count |-> 8])

InitWith(fl, type, sc, unsafe, dev0, fat0) ==
    /\ fwup_unsafe = unsafe
    /\ cfg = [resources |-> With(<<>>, "TEST", [map |-> sc.map, hash |-> sc.hash]),
              uboot |-> UbootSections,
              mbr |-> {"mbr-a"}]
    /\ arch = sc.arch
    /\ funlist = fl
    /\ fctx = [type |-> type, title |-> "TEST", argc |-> 0,
               argv |-> [i \in 1..FUN_MAX_ARGS |-> NULL]]
    /\ pc = "progress"
    /\ ix = 1
    /\ output = [dev |-> dev0, cache |-> <<>>]
    /\ fat = fat0
    /\ progress = [total_units |-> 0, current_units |-> 0]
    /\ stream = [pos |-> 0]
    /\ host = [files |-> <<>>, open |-> StdDescriptors]
    /\ last_error = ""
    /\ log = <<>>
    /\ seen = <<>>

\* on-resource funlists that stream the resource to the output.
StreamTuples ==
    {<<"raw_write", "0">>, <<"raw_write", "1">>, <<"fat_write", "0", "f">>}

StreamMaps ==
    {<<>>, <<0, 3>>, <<3>>, <<4>>, <<3, 1>>, <<2, 2>>, <<2, 3>>, <<1, 4>>,
     <<1, 2, 2>>, <<1, 1, 1, 3>>}

InitStream ==
    \E fl \in Funlists(StreamTuples, MaxActions), sc \in Scenarios(StreamMaps),
       dev0 \in {<<>>, <<9, 9, 9>>}, fat0 \in {<<>>, FatWithFile} :
        InitWith(fl, FUN_CONTEXT_FILE, sc, FALSE, dev0, fat0)

SpecStream == InitStream /\ [][Next]_vars

----------------------------------------------------------------------------
(* Reading the event log: the last event is the return of the last call    *)
(* of a phase function; the events before it, back to the previous return, *)
(* are what that call did.                                                 *)

IsReturn(ev) == ev.op \in {"validate", "progress", "run"}

Returned == Len(log) > 0 /\ IsReturn(log[Len(log)])

Last == log[Len(log)]

\* The last call was the run function of one of the names.
RanLast(names) == Returned /\ Last.op = "run" /\ Last.s \in names

CallStart ==
    LET before == {j \in 1..(Len(log) - 1) : IsReturn(log[j])}
    IN  IF before = {} THEN 1
        ELSE 1 + CHOOSE j \in before : \A k \in before : k <= j

CallEvents == SubSeq(log, CallStart, Len(log) - 1)

OpsOf(evs, ops) == {i \in 1..Len(evs) : evs[i].op \in ops}

LengthsOf(evs, ops) == [i \in 1..Len(evs) |-> IF evs[i].op \in ops THEN evs[i].n ELSE 0]

\* The bytes the last call handed to its sink: the stream up to its position,
\* as long as the chunks the call wrote.
DeliveredLen == SumSeq(LengthsOf(CallEvents, {"sink_data"}))

Delivered == SubSeq(arch, stream.pos - DeliveredLen + 1, stream.pos)

Manifest == cfg.resources["TEST"]

\* C2: whenever raw_write or fat_write returns success, the digest of the
\* bytes it delivered to the sink equals the digest recorded in the manifest.
C2_SuccessMeansDigestMatches ==
    (RanLast({"raw_write", "fat_write"}) /\ Last.n = 0)
        => Blake2bHex(Delivered) = Manifest.hash

----------------------------------------------------------------------------
(* What raw_write is to leave on the sink, stated from the sparse map      *)
(* alone: no chunking, no partial-block buffer, no cache.                  *)

\* The index into the resource's data of the byte at offset r of the
\* resource, or 0 when r lies in a hole (i is the index of a data run).
RECURSIVE DataIndexAt(_, _, _, _)
DataIndexAt(map, i, r, before) ==
    IF i > Len(map) THEN 0
    ELSE IF r < map[i] THEN before + r + 1
    ELSE IF i + 1 > Len(map) \/ r < map[i] + map[i + 1] THEN 0
    ELSE DataIndexAt(map, i + 2, r - map[i] - map[i + 1], before + map[i])

\* The offsets of the resource raw_write hands to the sink: the data runs
\* and the zero block at the end of a trailing hole.
WrittenOffsets(map) ==
    {r \in 0..(sparse_file_size(map) - 1) :
        \/ DataIndexAt(map, 1, r, 0) # 0
        \/ r >= sparse_file_size(map) - Min(FWUP_BLOCK_SIZE, sparse_ending_hole_size(map))}

WrittenBlocks(map, dest) == {BlockOf(dest + r) : r \in WrittenOffsets(map)}

\* The byte at p of the sink after the write, given the sink before it.
ExpectedSinkByte(before, map, data, dest, p) ==
    IF p >= dest /\ p - dest < sparse_file_size(map)
                 /\ DataIndexAt(map, 1, p - dest, 0) # 0
    THEN data[DataIndexAt(map, 1, p - dest, 0)]
    ELSE IF BlockOf(p) \in WrittenBlocks(map, dest) THEN 0
    ELSE OutputByte(before, p)

\* The length of the sink as a reader of the output sees it.
OutputLen(out) ==
    Max(Len(out.dev),
        IF DOMAIN out.cache = {} THEN 0
        ELSE FWUP_BLOCK_SIZE
             * (1 + CHOOSE b \in DOMAIN out.cache : \A c \in DOMAIN out.cache : c <= b))

RoundUp(n) == ((n + FWUP_BLOCK_SIZE - 1) \div FWUP_BLOCK_SIZE) * FWUP_BLOCK_SIZE

\* The last call was raw_write and it returned success.
RawWriteSucceeded == RanLast({"raw_write"}) /\ Last.n = 0

\* The destination in bytes that the test of raw_write expects: block
\* offset times the block size.
DestBytes == strtoull(fctx.argv[2]) * FWUP_BLOCK_SIZE

\* C9: the sink after a successful raw_write holds the resource's data at
\* block_offset * block size, whatever chunks the stream delivered it in.
C9_SinkIndependentOfChunking ==
    [][ (log' # log /\ RawWriteSucceeded')
            => \A p \in 0..(OutputLen(output') + FWUP_BLOCK_SIZE) :
                  OutputByte(output', p)
                      = ExpectedSinkByte(output, Manifest.map, arch, DestBytes', p) ]_vars

\* Reached: raw_write at block offset 1 succeeded on a resource with a hole
\* inside a block, delivered in more than one chunk.
C9_Witness ==
    /\ RawWriteSucceeded
    /\ DestBytes = FWUP_BLOCK_SIZE
    /\ Manifest.map = <<1, 2, 2>>
    /\ Cardinality(OpsOf(CallEvents, {"sink_data"})) >= 2
    /\ OutputByte(output, FWUP_BLOCK_SIZE) = arch[1]
    /\ OutputByte(output, FWUP_BLOCK_SIZE + 3) = arch[2]

----------------------------------------------------------------------------
(* The length of the sink after a raw_write of a resource that ends in a   *)
(* hole.                                                                   *)

\* The step is a successful raw_write of a resource ending in a hole, into
\* a sink that was shorter than block offset * block size + total size.
GrowsByEndingHole ==
    /\ log' # log
    /\ RawWriteSucceeded'
    /\ sparse_ending_hole_size(Manifest.map) > 0
    /\ OutputLen(output) < DestBytes' + sparse_file_size(Manifest.map)

EndingZeros(out, from) == \A p \in from..(OutputLen(out) - 1) : OutputByte(out, p) = 0

\* C8 as stated: the sink length is block offset * block size + total size
\* and the last min(block size, ending_hole) bytes of that range are zero.
C8_SinkLengthIsTotalSize ==
    [][ GrowsByEndingHole
            => /\ OutputLen(output') = DestBytes' + sparse_file_size(Manifest.map)
               /\ EndingZeros(output', DestBytes' + sparse_file_size(Manifest.map)
                                          - RawEndingHoleLen(Manifest.map)) ]_vars

\* C8, amended: the sink length is block offset * block size + total size
\* rounded up to a whole block (the final partial block is zero-padded), and
\* the sink is zero from the last min(block size, ending_hole) bytes of the
\* resource's range to its end.
C8_SinkLengthIsTotalSizeRoundedUp ==
    [][ GrowsByEndingHole
            => /\ OutputLen(output')
                      = RoundUp(DestBytes' + sparse_file_size(Manifest.map))
               /\ EndingZeros(output', DestBytes' + sparse_file_size(Manifest.map)
                                          - RawEndingHoleLen(Manifest.map)) ]_vars

\* Reached: raw_write succeeded at block offset 1 on a resource of total
\* size 5 (not a whole number of blocks) ending in a hole of 3, and the sink,
\* at most 3 bytes long before, is now 8 bytes long.
C8_Witness ==
    /\ RawWriteSucceeded
    /\ Manifest.map = <<2, 3>>
    /\ DestBytes = FWUP_BLOCK_SIZE
    /\ OutputLen(output) = 8
    /\ OutputByte(output, 6) = 0

----------------------------------------------------------------------------
(* The resource stream is read once; what raw_write and fat_write check    *)
(* after the last chunk.                                                   *)

RunsBefore(names) ==
    {j \in 1..(Len(log) - 1) : log[j].op = "run" /\ log[j].s \in names}

\* C5 as stated: a raw_write that follows another raw_write in the same
\* on-resource funlist returns failure, for every resource.
C5_SecondRawWriteFails ==
    (RanLast({"raw_write"}) /\ RunsBefore({"raw_write"}) # {}) => Last.n < 0

DigestDiffers == Blake2bHex(Delivered) # Manifest.hash

\* The call compared the digests only after everything was handed over: the
\* comparison is the call's last event, all the data is out and so is the
\* write for a trailing hole.
MismatchSeenLast ==
    \A i \in OpsOf(CallEvents, {"digest_mismatch"}) :
        /\ i = Len(CallEvents)
        /\ DeliveredLen = sparse_file_data_size(Manifest.map)
        /\ sparse_ending_hole_size(Manifest.map) > 0
               => OpsOf(CallEvents, {"sink_hole"}) # {}

\* The sink of the call holds what was written of the resource: for
\* raw_write the output from the destination on, for fat_write the file.
SinkHoldsResource(name, before, after, dest, volumes) ==
    IF name = "raw_write"
    THEN \A p \in 0..(OutputLen(after) + FWUP_BLOCK_SIZE) :
            OutputByte(after, p)
                = ExpectedSinkByte(before, Manifest.map, arch, dest, p)
    ELSE /\ 0 \in DOMAIN volumes
         /\ "f" \in DOMAIN volumes[0].files
         /\ Len(volumes[0].files["f"]) = sparse_file_size(Manifest.map)

\* C7 as stated: in raw_write and fat_write a digest that differs is always
\* reported as a failure, it is found only after the last data byte and the
\* trailing-hole write went to the sink, and the sink keeps what was written.
C7_MismatchIsLateAndFatal ==
    [][ (log' # log /\ RanLast({"raw_write", "fat_write"})')
            => /\ DigestDiffers' => Last'.n < 0
               /\ MismatchSeenLast'
               /\ OpsOf(CallEvents', {"digest_mismatch"}) # {}
                      => /\ Last'.n < 0
                         /\ SinkHoldsResource(Last'.s, output, output',
                                              DestBytes', fat') ]_vars

----------------------------------------------------------------------------
(* The actions that reach outside the output: path_write, pipe_write and   *)
(* execute, with and without --unsafe.                                     *)

GateTuples ==
    {<<"path_write", "out">>, <<"path_write", "/nodir/out">>,
     <<"pipe_write", "cmd">>, <<"execute", "cmd">>, <<"info", "x">>}

GateMaps == {<<>>, <<3>>, <<2, 3>>}

InitGate ==
    \E fl \in Funlists(GateTuples, MaxActions), sc \in Scenarios(GateMaps),
       unsafe \in BOOLEAN :
        InitWith(fl, FUN_CONTEXT_FILE, sc, unsafe, <<>>, <<>>)

SpecGate == InitGate /\ [][Next]_vars

HostEvents == {"open", "popen", "close", "pclose", "write"}

\* C1 as stated: without --unsafe each of path_write, pipe_write and
\* execute returns failure and opens, spawns, closes and writes nothing.
C1_GateHasNoSideEffect ==
    [][ (log' # log /\ RanLast({"path_write", "pipe_write", "execute"})'
                    /\ ~fwup_unsafe)
            => /\ Last'.n < 0
               /\ OpsOf(CallEvents', HostEvents) = {}
               /\ host' = host ]_vars

----------------------------------------------------------------------------
(* Funlists over the whole action table.                                   *)

AllTuples ==
    {<<"raw_write", "0">>, <<"raw_memset", "0", "1", "0xff">>,
     <<"fat_attrib", "0", "f", "S">>, <<"fat_mkfs", "0", "8">>,
     <<"fat_write", "0", "f">>, <<"fat_mv", "0", "f", "g">>,
     <<"fat_mv!", "0", "f", "g">>, <<"fat_rm", "0", "f">>,
     <<"fat_rm!", "0", "f">>, <<"fat_cp", "0", "f", "g">>,
     <<"fat_mkdir", "0", "d">>, <<"fat_setlabel", "0", "L">>,
     <<"fat_touch", "0", "f">>, <<"mbr_write", "mbr-a">>,
     <<"mbr_write", "mbr-b">>, <<"trim", "1", "256">>,
     <<"uboot_clearenv", "env">>, <<"uboot_setenv", "env", "a", "1">>,
     <<"uboot_unsetenv", "env", "a">>, <<"uboot_recover", "env">>,
     <<"error", "x">>, <<"info", "x">>, <<"path_write", "out">>,
     <<"pipe_write", "cmd">>, <<"execute", "cmd">>}

AllScenarios ==
    {[map |-> <<3>>, arch |-> Pattern(3), hash |-> Blake2bHex(Pattern(3))],
     [map |-> <<0, 3>>, arch |-> <<>>, hash |-> Blake2bHex(<<>>)]}

InitAll ==
    \E fl \in Funlists(AllTuples, MaxActions), sc \in AllScenarios,
       unsafe \in BOOLEAN, dev0 \in {<<>>, Zeros(18)}, fat0 \in {<<>>, FatWithFile} :
        InitWith(fl, FUN_CONTEXT_FILE, sc, unsafe, dev0, fat0)

SpecAll == InitAll /\ [][Next]_vars

\* The names of the actions of a flattened funlist, in listed order.
RECURSIVE FunlistNames(_)
FunlistNames(fl) ==
    IF Len(fl) < 2 THEN <<>>
    ELSE <<fl[2]>> \o FunlistNames(SubSeq(fl, 2 + strtoull(fl[1]), Len(fl)))

ReturnsOf(op) == {j \in 1..Len(log) : log[j].op = op}

\* The names of the calls of a pass that returned so far, in order.
RECURSIVE NamesOf(_, _)
NamesOf(evs, op) ==
    IF evs = <<>> THEN <<>>
    ELSE (IF Head(evs).op = op THEN <<Head(evs).s>> ELSE <<>>) \o NamesOf(Tail(evs), op)

IsPrefix(a, b) == Len(a) <= Len(b) /\ a = SubSeq(b, 1, Len(a))

\* C3 as stated: fun_apply_funlist runs the actions in listed order, and at
\* the first call that reports an error (returns anything but 0) it returns
\* failure: no later action is invoked.
C3_StopsAtFirstError ==
    /\ IsPrefix(NamesOf(log, "progress"), FunlistNames(funlist))
    /\ IsPrefix(NamesOf(log, "run"), FunlistNames(funlist))
    /\ \A j \in 1..Len(log) :
          (IsReturn(log[j]) /\ log[j].n # 0) => (j = Len(log) /\ pc = "failed")

\* Every action of the funlist has run and returned success.
AllSucceeded ==
    /\ pc \in {"flush", "done"}
    /\ \A j \in ReturnsOf("run") : log[j].n = 0

\* C4 as stated: the units reported never exceed total_units, and when every
\* action has run successfully they equal total_units.
C4_ProgressAddsUp ==
    /\ progress.current_units <= progress.total_units
    /\ AllSucceeded => progress.current_units = progress.total_units

----------------------------------------------------------------------------
(* Actions that write and read the output through the block cache, as in   *)
(* the recovery test of the U-Boot environment.                            *)

MaxEnvActions == 3

EnvTuples ==
    {<<"raw_memset", "1", "8", "0xff">>, <<"raw_memset", "0", "2", "0">>,
     <<"uboot_recover", "env">>, <<"uboot_clearenv", "env">>,
     <<"uboot_setenv", "env", "a", "1">>, <<"uboot_setenv", "env", "b", "2">>,
     <<"uboot_unsetenv", "env", "a">>, <<"mbr_write", "mbr-a">>}

NoResource == [map |-> <<>>, arch |-> <<>>, hash |-> Blake2bHex(<<>>)]

InitEnv ==
    \E fl \in Funlists(EnvTuples, MaxEnvActions),
       dev0 \in {<<>>, Zeros(18), Fill(18, 255)} :
        InitWith(fl, FUN_CONTEXT_GLOBAL, NoResource, FALSE, dev0, <<>>)

SpecEnv == InitEnv /\ [][Next]_vars

ReadingActions == {"uboot_recover", "uboot_setenv", "uboot_unsetenv"}

\* The pwrites logged before index k that cover byte p.
PwritesCovering(k, p) ==
    {j \in 1..(k - 1) : /\ log[j].op = "pwrite"
                        /\ log[j].m <= p
                        /\ p < log[j].m + log[j].n}

\* The byte at p as the most recent pwrite before index k left it; the
\* byte of the device dev where no pwrite covered p.
LatestByte(k, p, dev) ==
    IF PwritesCovering(k, p) = {} THEN DevByte(dev, p)
    ELSE LET j == CHOOSE i \in PwritesCovering(k, p) :
                      \A h \in PwritesCovering(k, p) : h <= i
         IN  log[j].b[p - log[j].m + 1]

\* The index in the log of the pread of the last call.
LastPread == CallStart - 1 + CHOOSE i \in OpsOf(CallEvents, {"pread"}) : TRUE

\* C10: the bytes a reading action gets from block_cache_pread are, byte for
\* byte, those of the most recent earlier pwrite that covers the byte
\* (streamed or not), and the device's where nothing was written.  (Up to
\* the final flush the device holds there what it held at the read.)
C10_PreadSeesLatestPwrite ==
    (RanLast(ReadingActions) /\ OpsOf(CallEvents, {"pread"}) # {} /\ pc # "done")
        => /\ Len(seen) = log[LastPread].n
           /\ \A q \in 1..Len(seen) :
                 seen[q] = LatestByte(LastPread, log[LastPread].m + q - 1, output.dev)

\* Reached: uboot_setenv read the environment that an earlier uboot_recover
\* wrote over the 0xff bytes of a raw_memset before it.
C10_Witness ==
    /\ RanLast({"uboot_setenv"})
    /\ Last.n = 0
    /\ NamesOf(log, "run") = <<"raw_memset", "uboot_recover", "uboot_setenv">>
    /\ \E j \in 1..(LastPread - 1) : log[j].op = "pwrite" /\ log[j].s = "uboot_recover"
    /\ seen # Fill(Len(seen), 255)

----------------------------------------------------------------------------
(* The environment actions read one block and write, if at all, that block *)

\* The environment the named section of the configuration describes.
EnvOf(name) == uboot_env_create_cfg(cfg.uboot[name])

\* The last call read the environment block.
ReadBlock(names) == RanLast(names) /\ OpsOf(CallEvents, {"pread"}) # {}

\* Whether the block the last call read decodes (CRC and parse).
Decodes(buffer) == uboot_env_read(EnvOf("env"), buffer).rc = 0

DecodedVars(buffer) == uboot_env_read(EnvOf("env"), buffer).env.vars

\* The pwrite events of the last call.
CallPwrites == {CallStart - 1 + i : i \in OpsOf(CallEvents, {"pwrite"})}

\* The output reads the same before and after at every byte outside
\* [off, off + len).
SameOutside(before, after, off, len) ==
    \A p \in 0..(Max(OutputLen(before), OutputLen(after)) - 1) :
        (p < off \/ p >= off + len) => OutputByte(after, p) = OutputByte(before, p)

\* The bytes of [off, off + len) as a reader of the output sees them.
OutputRange(out, off, len) == [i \in 1..len |-> OutputByte(out, off + i - 1)]

\* What a call of uboot_recover that read the block rd did, given the log
\* and the output before and after it.
RecoverEffect(rd, buffer, writes, lg, before, after) ==
    IF Decodes(buffer)
    THEN writes = {} /\ after = before
    ELSE /\ Cardinality(writes) = 1
         /\ \A j \in writes : lg[j].m = rd.m /\ lg[j].n = rd.n
         /\ Decodes(OutputRange(after, rd.m, rd.n))
         /\ DecodedVars(OutputRange(after, rd.m, rd.n)) = <<>>
         /\ SameOutside(before, after, rd.m, rd.n)

\* C11: uboot_recover writes to the output if and only if the block it read
\* fails to decode, and then it writes a clean empty environment over
\* exactly that block; when the block decodes the output is unchanged, so a
\* uboot_recover directly after a successful one writes nothing.
C11_RecoverWritesIffCorrupt ==
    [][(log' # log /\ ReadBlock({"uboot_recover"})')
          => /\ RecoverEffect(log'[LastPread'], seen', CallPwrites', log', output, output')
             /\ (RanLast({"uboot_recover"}) /\ Last.n = 0) => CallPwrites' = {}]_vars

\* Reached: uboot_recover found 0xff bytes, wrote the clean environment,
\* and the uboot_recover after it read that environment and wrote nothing.
C11_Witness ==
    /\ NamesOf(log, "run") = <<"raw_memset", "uboot_recover", "uboot_recover">>
    /\ \E j \in 1..(CallStart - 1) : log[j].op = "pwrite" /\ log[j].s = "uboot_recover"
    /\ ReadBlock({"uboot_recover"})
    /\ CallPwrites = {}
    /\ Decodes(seen)
    /\ Last.n = 0

\* C12: uboot_setenv and uboot_unsetenv do not tolerate a corrupt
\* environment: when the block they read fails to decode they return
\* failure, the run stops, and the output is not written.
C12_ModifyRejectsCorrupt ==
    [][(/\ log' # log
        /\ ReadBlock({"uboot_setenv", "uboot_unsetenv"})'
        /\ ~Decodes(seen'))
          => /\ Last'.n < 0
             /\ pc' = "failed"
             /\ CallPwrites' = {}
             /\ output' = output]_vars

\* Reached: uboot_unsetenv read a block of zeros, which does not decode.
C12_Witness ==
    /\ ReadBlock({"uboot_unsetenv"})
    /\ seen = Zeros(Len(seen))
    /\ ~Decodes(seen)
    /\ Last.n < 0
    /\ pc = "failed"

\* What a successful uboot_setenv of name to value did to the block
\* [off, off + len) of the output.
SetenvEffect(name, value, off, len, before, after) ==
    /\ Decodes(OutputRange(after, off, len))
    /\ DecodedVars(OutputRange(after, off, len))
           = With(DecodedVars(OutputRange(before, off, len)), name, value)
    /\ SameOutside(before, after, off, len)

\* C13: after uboot_setenv succeeds, the bytes [block_offset * 512,
\* block_offset * 512 + env_size) of the output decode to the variables
\* stored there before with var set to value, and no byte outside that
\* range has changed; on an empty environment the result is the one
\* variable.
C13_SetenvIsReadModifyWrite ==
    [][(log' # log /\ RanLast({"uboot_setenv"})' /\ Last'.n = 0)
          => /\ SetenvEffect(StrBytes[fctx'.argv[3]], StrBytes[fctx'.argv[4]],
                             UbootEnvOffset(EnvOf(fctx'.argv[2])),
                             EnvOf(fctx'.argv[2]).env_size, output, output')
             /\ DecodedVars(seen') = <<>>
                   => DecodedVars(OutputRange(output', UbootEnvOffset(EnvOf(fctx'.argv[2])),
                                              EnvOf(fctx'.argv[2]).env_size))
                          = With(<<>>, StrBytes[fctx'.argv[3]], StrBytes[fctx'.argv[4]])]_vars

\* Reached: uboot_setenv of b to 2 on an environment that held a = 1, after
\* which the block holds both.
C13_Witness ==
    /\ RanLast({"uboot_setenv"})
    /\ Last.n = 0
    /\ DecodedVars(seen) = With(<<>>, StrBytes["a"], StrBytes["1"])
    /\ DecodedVars(OutputRange(output, UbootEnvOffset(EnvOf("env")), EnvOf("env").env_size))
           = With(With(<<>>, StrBytes["a"], StrBytes["1"]), StrBytes["b"], StrBytes["2"])

----------------------------------------------------------------------------
(* The plain and the '!' names of fat_mv and fat_rm, on FAT volumes with   *)
(* and without the files they name.                                        *)

FatTuples ==
    {<<"fat_rm", "0", "f">>, <<"fat_rm!", "0", "f">>,
     <<"fat_mv", "0", "f", "g">>, <<"fat_mv!", "0", "f", "g">>,
     <<"fat_touch", "0", "g">>, <<"fat_touch", "0", "f">>}

FatWithBoth ==
    With(<<>>, 0, [EmptyVolume EXCEPT !.files = With(With(<<>>, "f", OldFile), "g", <<>>)])

InitFat ==
    \E fl \in Funlists(FatTuples, MaxActions),
       fat0 \in {<<>>, With(<<>>, 0, EmptyVolume), FatWithFile, FatWithBoth} :
        InitWith(fl, FUN_CONTEXT_GLOBAL, NoResource, FALSE, <<>>, fat0)

SpecFat == InitFat /\ [][Next]_vars

BangNames == {"fat_mv!", "fat_rm!"}

VariantNames == {"fat_mv", "fat_rm"} \cup BangNames

\* The index in fun_table of a name.
EntryOf(name) == lookup(1, <<name>>)

IsAdapterCall(ev) == ev.op \in {"fatfs_mv", "fatfs_rm"}

\* The calls of the FAT adapter the last call made, with the flag it passed.
AdapterCalls == SelectSeq(CallEvents, IsAdapterCall)

HasFile(volumes, off, path) == off \in DOMAIN volumes /\ path \in DOMAIN volumes[off].files

\* The plain name of the pair a name belongs to.
PlainOf(name) == IF name \in {"fat_mv", "fat_mv!"} THEN "fat_mv" ELSE "fat_rm"

\* What a call under the name did, given the volumes before it: ret is its
\* return event, calls the events of its calls of the adapter.
VariantEffect(ret, argv, calls, before) ==
    /\ Len(calls) = 1
    /\ calls[1].op = (IF PlainOf(ret.s) = "fat_mv" THEN "fatfs_mv" ELSE "fatfs_rm")
    /\ calls[1].n = Flag(ret.s \in BangNames)
    /\ 6 <= Len(NameChars[ret.s])
    /\ fun_info(EntryOf(ret.s)).fun = fun_info(EntryOf(PlainOf(ret.s))).fun
    /\ (PlainOf(ret.s) = "fat_rm" /\ 0 \in DOMAIN before /\ ~HasFile(before, 0, argv[3]))
          => (ret.n = 0 <=> ret.s = "fat_rm")
    /\ (PlainOf(ret.s) = "fat_mv" /\ HasFile(before, 0, argv[3])
            /\ HasFile(before, 0, argv[4]))
          => (ret.n = 0 <=> ret.s = "fat_mv!")

\* C14: the flag handed to the FAT adapter is true exactly under the '!'
\* name: fat_rm passes file_must_exist = false and fat_rm! true (fat_rm of a
\* missing file succeeds, fat_rm! fails), fat_mv passes force = false and
\* fat_mv! true; both names of a pair hold the same functions, and the byte
\* read lies within the name string (its terminator included).
C14_VariantFlagFollowsName ==
    [][(log' # log /\ RanLast(VariantNames)')
          => VariantEffect(Last', fctx'.argv, AdapterCalls', fat)]_vars

\* Reached: fat_rm! of a file that is not on the volume has failed, after a
\* fat_rm of the same missing file succeeded.
C14_Witness ==
    /\ NamesOf(log, "run") = <<"fat_rm", "fat_rm!">>
    /\ RanLast({"fat_rm!"})
    /\ Last.n < 0
    /\ AdapterCalls[1].n = 1
    /\ \E j \in ReturnsOf("run") : log[j].s = "fat_rm" /\ log[j].n = 0
    /\ 0 \in DOMAIN fat /\ ~HasFile(fat, 0, "f")

----------------------------------------------------------------------------
(* Funlists as an archive may hold them: any strings, in any order, where  *)
(* the arity strings and the names are expected.                           *)

MaxFunlistLen == 4

FunlistStrings == {"0", "1", "2", "9", "65537", "info", "x"}

InitArity ==
    \E fl \in UNION {[1..n -> FunlistStrings] : n \in 0..MaxFunlistLen} :
        InitWith(fl, FUN_CONTEXT_GLOBAL, NoResource, FALSE, <<>>, <<>>)

SpecArity == InitArity /\ [][Next]_vars

\* fun_apply_funlist is about to read the string at ix as an arity.
ReadsArity == pc \in {"progress", "run"} /\ cfg_opt_getnstr(funlist, ix) # NULL

\* C15 as stated: when the numeric value of the arity string read is outside
\* (0, FUN_MAX_ARGS], fun_apply_funlist returns failure and the phase
\* function is not invoked for the tuple.
C15_ArityOutOfRangeFails ==
    [][(ReadsArity /\ strtoul(funlist[ix]) \notin 1..FUN_MAX_ARGS)
          => (pc' = "failed" /\ log' = log)]_vars

\* The same for every arity string whose value fits an int.
C15_ArityWithinIntChecked ==
    [][(ReadsArity /\ strtoul(funlist[ix]) \notin 1..FUN_MAX_ARGS
            /\ strtoul(funlist[ix]) < 2 ^ (INT_BITS - 1))
          => (pc' = "failed" /\ log' = log)]_vars

----------------------------------------------------------------------------
(* Function contexts handed to one entry point: any name, known or not,    *)
(* with any argument count, in either context type.                        *)

UnknownNames == {"nope", "fat_cp!", "trim!"}

TableNames == {fun_table[i] : i \in 1..Len(fun_table)}

MaxArgc == 5

Operands1 == {"0", "-1", "env", "mbr-a", "nope"}

Operands2 == {"1", "16383", "16384", "65537", "-1", "f"}

Operands3 == {"S", "0", "255", "256", "Sx"}

\* argv of argc strings, the rest zeroed.
ArgvOf(argc, strings) ==
    [i \in 1..FUN_MAX_ARGS |-> IF i <= argc /\ i <= Len(strings) THEN strings[i] ELSE NULL]

\* The calls of fun_compute_progress and fun_run: of an unknown name, of no
\* name at all, and of well-formed actions.
EntryTuples ==
    {<<n, "0", "f">> : n \in UnknownNames} \cup {<<n>> : n \in UnknownNames}
        \cup {<<>>, <<"info", "x">>, <<"fat_rm!", "0", "f">>, <<"fat_touch", "0", "g">>}

InitCall(entry, type, argc, argv) ==
    /\ fwup_unsafe = FALSE
    /\ cfg = [resources |-> With(<<>>, "TEST", [map |-> <<>>, hash |-> Blake2bHex(<<>>)]),
              uboot |-> UbootSections,
              mbr |-> {"mbr-a"}]
    /\ arch = <<>>
    /\ funlist = <<>>
    /\ fctx = [type |-> type, title |-> "TEST", argc |-> argc, argv |-> argv]
    /\ pc = entry
    /\ ix = 1
    /\ output = [dev |-> <<>>, cache |-> <<>>]
    /\ fat = FatWithFile
    /\ progress = [total_units |-> 0, current_units |-> 0]
    /\ stream = [pos |-> 0]
    /\ host = [files |-> <<>>, open |-> StdDescriptors]
    /\ last_error = ""
    /\ log = <<>>
    /\ seen = <<>>

InitEntry ==
    \/ \E name \in TableNames \cup UnknownNames, argc \in 0..MaxArgc,
          type \in {FUN_CONTEXT_GLOBAL, FUN_CONTEXT_FILE},
          o1 \in Operands1, o2 \in Operands2, o3 \in Operands3 :
           InitCall("fun_validate", type, argc, ArgvOf(argc, <<name, o1, o2, o3, "x">>))
    \/ \E entry \in {"fun_compute_progress", "fun_run"}, t \in EntryTuples,
          type \in {FUN_CONTEXT_GLOBAL, FUN_CONTEXT_FILE} :
           InitCall(entry, type, Len(t), ArgvOf(Len(t), t))

SpecEntry == InitEntry /\ [][NextEntry]_vars

\* The call of an entry point has returned.
Called(phases) == pc = "returned" /\ Returned /\ Last.op \in phases

\* C16: for a name that is not in the action table (a table name with a '!'
\* that the table does not list included), fun_validate,
\* fun_compute_progress and fun_run set the last error and return failure;
\* no action function is invoked, and progress and the output stay as they
\* were.
C16_UnknownNameFails ==
    [][(pc \in EntryPoints /\ fctx.argc >= 1 /\ fctx.argv[1] \notin TableNames)
          => /\ pc' = "returned"
             /\ log' = Append(log, Event(PhaseOf(pc), fctx.argv[1], -1))
             /\ last_error' = "Unknown function"
             /\ progress' = progress
             /\ output' = output
             /\ fat' = fat
             /\ host' = host]_vars

\* Reached: fun_run of fat_cp!, a table name with a '!' the table does not
\* list, has failed.
C16_Witness ==
    /\ Called({"run"})
    /\ Last.s = "fat_cp!"
    /\ Last.n = -1
    /\ last_error = "Unknown function"

\* The number of operands the table of actions lists for a name.
ListedOperands(name) ==
    CASE name \in {"raw_write", "mbr_write", "uboot_clearenv", "uboot_recover", "error",
                   "info", "path_write", "pipe_write", "execute"} -> 1
      [] name \in {"fat_mkfs", "fat_write", "fat_rm", "fat_rm!", "fat_mkdir",
                   "fat_setlabel", "fat_touch", "trim", "uboot_unsetenv"} -> 2
      [] name \in {"raw_memset", "fat_attrib", "fat_mv", "fat_mv!", "fat_cp",
                   "uboot_setenv"} -> 3

\* C17: for every action of the table, validate succeeds only if argc is
\* one plus the number of operands listed for the action.
C17_ValidateChecksArgc ==
    (Called({"validate"}) /\ Last.n = 0)
        => /\ Last.s \in TableNames
           /\ fctx.argc = 1 + ListedOperands(Last.s)

\* Reached: uboot_setenv with its three operands has validated.
C17_Witness ==
    /\ Called({"validate"})
    /\ Last.n = 0
    /\ Last.s = "uboot_setenv"
    /\ fctx.argc = 4
    /\ fctx.argv[2] = "env"

FileOnlyNames == {"raw_write", "fat_write", "path_write", "pipe_write"}

\* C18: raw_write, fat_write, path_write and pipe_write fail validation
\* whenever the context type is not FILE; every other action validates the
\* same in either context type.
C18_FileOnlyActions ==
    Called({"validate"})
        => /\ (Last.s \in FileOnlyNames /\ fctx.type # FUN_CONTEXT_FILE) => Last.n < 0
           /\ (Last.s \in TableNames \ FileOnlyNames)
                 => \A t \in {FUN_CONTEXT_GLOBAL, FUN_CONTEXT_FILE} :
                       fun_validate(World, [fctx EXCEPT !.type = t]).rc = Last.n

\* Reached: pipe_write with its operand has failed validation in a GLOBAL
\* context.
C18_Witness ==
    /\ Called({"validate"})
    /\ Last.s = "pipe_write"
    /\ fctx.argc = 2
    /\ fctx.type = FUN_CONTEXT_GLOBAL
    /\ Last.n < 0
    /\ last_error = "only usable in on-resource"

\* The block count handed to validate: the second operand.
CountOperand == fctx.argv[3]

\* validate was called with the argument count of the action and a numeral
\* as its block count.
ValidatedCount(names) ==
    /\ Called({"validate"})
    /\ Last.s \in names
    /\ fctx.argc = 1 + ListedOperands(Last.s)
    /\ CountOperand \in DOMAIN NumeralValue

ExceedsInt32(count) == count * FWUP_BLOCK_SIZE > INT32_MAX

\* C19 as stated: for raw_memset, fat_mkfs and trim, validation rejects a
\* block count whose product with 512 exceeds INT32_MAX.
C19_CountLimitedEverywhere ==
    (ValidatedCount({"raw_memset", "fat_mkfs", "trim"})
         /\ ExceedsInt32(strtoull(CountOperand)))
        => Last.n < 0

\* C19 as amended: raw_memset and trim reject a block count whose product
\* with 512 exceeds INT32_MAX; fat_mkfs puts no limit on its count and
\* accepts every count that converts, whatever its size.
C19_CountLimitedForMemsetAndTrim ==
    /\ (ValidatedCount({"raw_memset", "trim"}) /\ ExceedsInt32(strtoull(CountOperand)))
          => Last.n < 0
    /\ (ValidatedCount({"fat_mkfs"}) /\ CHECK_ARG_UINT64(fctx.argv[2]))
          => Last.n = 0

\* Reached: trim of a count one block over the limit has failed validation.
C19_Witness ==
    /\ ValidatedCount({"trim"})
    /\ fctx.argv[2] = "0"
    /\ ExceedsInt32(strtoull(CountOperand))
    /\ ~ExceedsInt32(strtoull(CountOperand) - 1)
    /\ Last.n < 0

\* The hard trims the last call issued.
TrimsIssued == SelectSeq(CallEvents, LAMBDA ev : ev.op = "trim")

\* C20 as stated: trim(off, count) issues one hard block-cache trim for the
\* byte range that starts at off * 512 and is count * 512 long.
C20_TrimCoversCountBlocks ==
    RanLast({"trim"})
        => /\ Len(TrimsIssued) = 1
           /\ TrimsIssued[1].s = "hard"
           /\ TrimsIssued[1].n = strtoull(fctx.argv[2]) * FWUP_BLOCK_SIZE
           /\ TrimsIssued[1].m = strtoull(fctx.argv[3]) * FWUP_BLOCK_SIZE

\* The same with the length the code computes, from the block offset.
C20_TrimCoversOffsetBlocks ==
    RanLast({"trim"})
        => /\ Len(TrimsIssued) = 1
           /\ TrimsIssued[1].s = "hard"
           /\ TrimsIssued[1].n = strtoull(fctx.argv[2]) * FWUP_BLOCK_SIZE
           /\ TrimsIssued[1].m = strtoull(fctx.argv[2]) * FWUP_BLOCK_SIZE

----------------------------------------------------------------------------
(* path_write and pipe_write: what the sink accepted *)

WritesOf(evs) == [i \in 1..Len(evs) |-> IF evs[i].op = "write" THEN evs[i].m ELSE 0]

\* The bytes write() accepted during the last call.
SinkAccepted == SumSeq(WritesOf(CallEvents))

\* What a complete transfer hands to the descriptor: every data byte of the
\* resource, and the zeros written for a trailing hole.
SinkExpected(map) ==
    sparse_file_data_size(map) + Min(FWUP_BLOCK_SIZE, sparse_ending_hole_size(map))

\* C21 as stated: whenever path_write or pipe_write returns success, the
\* sink has accepted every byte the resource stream yielded (data_size bytes,
\* besides the zeros of a trailing hole); a write() that accepts fewer bytes
\* than requested does not end in success.
C21_SuccessMeansSinkAcceptedAll ==
    (RanLast({"path_write", "pipe_write"}) /\ Last.n = 0)
        => SinkAccepted = SinkExpected(Manifest.map)

----------------------------------------------------------------------------
(* execute: what is read from the command and what is forwarded *)

\* The blocks of output the last call read from the command's pipe.
BlocksRead == {i \in OpsOf(CallEvents, {"fread"}) : CallEvents[i].n > 0}

\* The event after block i of the last call forwards the block to the
\* diagnostic channel.
Forwarded(i) ==
    /\ i + 1 <= Len(CallEvents)
    /\ CallEvents[i + 1].op = "warnx"

\* C22 as stated: with unsafe_mode set, every block of output that execute
\* read from the command's pipe has been emitted on the diagnostic channel
\* when execute returns.
C22_ExecuteForwardsEveryBlock ==
    (RanLast({"execute"}) /\ fwup_unsafe)
        => \A i \in BlocksRead : Forwarded(i)

----------------------------------------------------------------------------
(* The progress pass alone, up to the start of the run pass:               *)
(* fun_apply_funlist with fun_compute_progress, on funlists over the whole  *)
(* action table whose operands validate accepts.                            *)

ProgressTuples ==
    AllTuples \cup {<<"raw_memset", "0", "16383", "0">>, <<"raw_memset", "0", "2", "0">>,
                    <<"trim", "0", "255">>, <<"trim", "0", "16383">>}

ProgressMaps == {<<>>, <<3>>, <<2, 3>>, <<0, 3>>, <<2, 1, 1>>}

InitProgress ==
    \E fl \in Funlists(ProgressTuples, MaxActions), m \in ProgressMaps,
       type \in {FUN_CONTEXT_FILE, FUN_CONTEXT_GLOBAL} :
        InitWith(fl, type,
                 [map |-> m, arch |-> Pattern(sparse_file_data_size(m)),
                  hash |-> Blake2bHex(Pattern(sparse_file_data_size(m)))],
                 FALSE, <<>>, FatWithFile)

ApplyProgress == pc = "progress" /\ ApplyTuple

NextProgress == ApplyProgress \/ ProgressDone

SpecProgress == InitProgress /\ [][NextProgress]_vars

BookkeepingNames ==
    {"fat_mkfs", "fat_attrib", "fat_mkdir", "fat_mv", "fat_mv!", "fat_rm", "fat_rm!",
     "fat_cp", "fat_setlabel", "fat_touch", "mbr_write", "uboot_recover",
     "uboot_clearenv", "uboot_setenv", "uboot_unsetenv"}

\* The units the action's compute_progress is to add, for an action with the
\* block count `count` on a resource of data_size data bytes.
UnitsToAdd(name, count, data_size) ==
    CASE name \in {"raw_write", "path_write", "pipe_write"} -> data_size
      [] name = "fat_write" -> Max(data_size, 1)
      [] name = "raw_memset" -> count * FWUP_BLOCK_SIZE
      [] name = "trim" -> count \div 256
      [] name \in BookkeepingNames -> 1
      [] name \in {"error", "info", "execute"} -> 0

----------------------------------------------------------------------------
(* fat_write of a resource without data bytes *)

\* C24 as stated: for every sparse map whose data_size is 0, a successful
\* fat_write has created an empty file at dest_path and has reported exactly
\* one progress unit, the unit fat_write's compute_progress counted for it.
C24_NoDataMeansEmptyFileAndOneUnit ==
    [][(log' # log /\ RanLast({"fat_write"})' /\ Last'.n = 0
            /\ sparse_file_data_size(Manifest.map) = 0)
          => /\ HasFile(fat', 0, "f")
             /\ fat'[0].files["f"] = <<>>
             /\ progress'.current_units = progress.current_units + 1]_vars

\* The same for the one map whose total size is 0 as well.
C24_EmptyMapMeansEmptyFileAndOneUnit ==
    [][(log' # log /\ RanLast({"fat_write"})' /\ Last'.n = 0
            /\ sparse_file_size(Manifest.map) = 0)
          => /\ HasFile(fat', 0, "f")
             /\ fat'[0].files["f"] = <<>>
             /\ progress'.current_units = progress.current_units + 1]_vars

----------------------------------------------------------------------------
(* The error messages of path_write, pipe_write and execute *)

\* What follows the action's name in the messages these run functions set
\* (operands and offsets left out).
MessageTails ==
    {" requires --unsafe", " can't open output file", " can't run command",
     " can't find matching file-resource", " couldn't write",
     " couldn't write to hole", " detected blake2b digest mismatch"}

\* The actions a message names.
ActionsNamed(msg) == {n \in TableNames : \E t \in MessageTails : msg = n \o t}

\* C25 as stated, for the run functions of path_write, pipe_write and
\* execute: on every failure path the error message set names the action
\* that was invoked.
C25_MessageNamesTheAction ==
    (RanLast({"path_write", "pipe_write", "execute"}) /\ Last.n < 0)
        => Last.s \in ActionsNamed(last_error)

\* The failures of these run functions whose message names another action,
\* or none.
C25_MisnamedFailure ==
    /\ RanLast({"path_write", "pipe_write", "execute"}) /\ Last.n < 0
    /\ Last.s \notin ActionsNamed(last_error)

\* What holds instead: a failure is misnamed only on the paths whose message
\* is a fixed text written for another action, or the digest-length message
\* that names the resource.
C25_MisnamedOnlyByFixedTexts ==
    C25_MisnamedFailure
        => last_error \in {"pipe_write requires --unsafe", "invalid blake2b-256 hash",
                           "raw_write detected blake2b digest mismatch",
                           "raw_write can't open output file"}

----------------------------------------------------------------------------
(* fat_write: truncation semantics *)

\* The file a resource stands for: its data bytes at the offsets of the data
\* runs of the map, zeros in the holes.
ResourceFile(map, data) ==
    [r \in 1..sparse_file_size(map) |->
        IF DataIndexAt(map, 1, r - 1, 0) # 0
        THEN data[DataIndexAt(map, 1, r - 1, 0)] ELSE 0]

\* In the last call, the removal of the old file came before every write.
RemovedBeforeWritten ==
    /\ OpsOf(CallEvents, {"fat_rm"}) # {}
    /\ \A i \in OpsOf(CallEvents, {"sink_data", "sink_hole", "fat_touch"}) :
           \E j \in OpsOf(CallEvents, {"fat_rm"}) : j < i

----------------------------------------------------------------------------
(* The progress pass leaves everything but total_units alone *)

\* C27: a step of the progress pass does not write, trim or read the output,
\* does not touch the FAT volumes or the host, does not pull from the
\* resource stream and reports no progress; it only increases total_units
\* (the log gains the return of the call and nothing else).  The stream is
\* unconsumed when the run pass starts.
C27_ProgressOnlyCounts ==
    [][pc = "progress"
          => /\ output' = output
             /\ fat' = fat
             /\ host' = host
             /\ stream' = stream
             /\ progress'.current_units = progress.current_units
             /\ progress'.total_units >= progress.total_units
             /\ Len(log') <= Len(log) + 1
             /\ \A i \in (Len(log) + 1)..Len(log') : log'[i].op = "progress"
             /\ (pc' = "run" => stream'.pos = 0)]_vars

\* Reached: the run pass is about to start after the progress pass counted
\* raw_write's three data bytes and one unit for fat_mkfs; the stream is at
\* its start.
C27_Witness ==
    /\ pc = "run" /\ ix = 1
    /\ Len(log) = 2
    /\ log[1].s = "raw_write" /\ log[2].s = "fat_mkfs"
    /\ Manifest.map = <<3>>
    /\ progress.total_units = 4
    /\ stream.pos = 0

----------------------------------------------------------------------------
(* path_write when host_path cannot be opened *)

\* The open() of the last call failed.
OpenFailed == \E i \in OpsOf(CallEvents, {"open"}) : CallEvents[i].n < 0

\* C28 as stated: if path_write cannot open host_path it returns failure,
\* for a resource with no data bytes too, and writes nothing.
C28_OpenFailureFails ==
    (RanLast({"path_write"}) /\ OpenFailed)
        => /\ Last.n < 0
           /\ OpsOf(CallEvents, {"write"}) = {}

\* The same for the resources that have bytes to write, data or the zeros
\* of a trailing hole.
C28_OpenFailureFailsWithBytes ==
    (RanLast({"path_write"}) /\ OpenFailed /\ sparse_file_size(Manifest.map) > 0)
        => /\ Last.n < 0
           /\ OpsOf(CallEvents, {"write"}) = {}

----------------------------------------------------------------------------
(* Funlists whose tuples are shorter than the action expects: the apply     *)
(* path calls no validate, so whatever arity the funlist gives is used.     *)

ShortTuples ==
    {<<"raw_memset">>, <<"raw_memset", "0", "1">>, <<"raw_memset", "0", "1", "0xff">>,
     <<"trim", "0">>, <<"trim", "1", "256">>,
     <<"fat_mkfs", "0">>, <<"fat_mkfs", "0", "8">>,
     <<"mbr_write">>, <<"mbr_write", "mbr-a">>,
     <<"info">>, <<"info", "x">>}

InitShort ==
    \E fl \in Funlists(ShortTuples, MaxActions), dev0 \in {<<>>, Zeros(18)} :
        InitWith(fl, FUN_CONTEXT_GLOBAL, NoResource, FALSE, dev0, <<>>)

SpecShort == InitShort /\ [][Next]_vars

\* fun_apply_funlist has dispatched the tuple in fctx to an action function.
Dispatched ==
    /\ Returned /\ Last.op \in {"progress", "run"}
    /\ lookup(fctx.argc, fctx.argv) # 0

\* The action function of the tuple in fctx.
DispatchedFun == fun_info(lookup(fctx.argc, fctx.argv)).fun

\* C29 as stated: for every tuple that fun_apply_funlist dispatches to
\* fun_compute_progress or fun_run, the action function reads only argv[i]
\* with i < argc, and so no slot that was cleared to NULL.
C29_ReadsOnlyBelowArgc ==
    Dispatched => \A i \in ArgvRead(DispatchedFun, Last.op) : i < fctx.argc

\* The same for the tuples that carry as many strings as the action's
\* validate asks for.
C29_ReadsBelowRequiredArgc ==
    (Dispatched /\ fctx.argc = RequiredArgc(DispatchedFun))
        => \A i \in ArgvRead(DispatchedFun, Last.op) : i < fctx.argc

----------------------------------------------------------------------------
(* fat_write of resources whose offsets reach past INT32_MAX.  A FAT file   *)
(* holds up to 2^32 - 1 bytes: with an int of INT_BITS bits, up to          *)
(* 2^INT_BITS - 1.                                                          *)

WideMaps ==
    {<<3>>, <<1, 2, 2>>, <<2, 3>>,
     <<1, INT32_MAX - 1, 1>>, <<1, INT32_MAX, 1>>, <<1, INT32_MAX>>}

InitWide ==
    \E fl \in Funlists({<<"fat_write", "0", "f">>}, MaxActions),
       sc \in Scenarios(WideMaps) :
        InitWith(fl, FUN_CONTEXT_FILE, sc, FALSE, <<>>, FatWithFile)

SpecWide == InitWide /\ [][Next]_vars

\* The calls of the adapter's pwrite in the last call.
PwriteCalls == OpsOf(CallEvents, {"sink_data", "sink_hole", "sink_refused"})

\* C30 as stated: in fat_write the file offset handed to the FAT adapter for
\* a chunk is the offset the resource stream reported for it, and the offset
\* used to grow the file over a trailing hole is the sparse map's total
\* size, for every offset and size a FAT file can have: narrowing to int
\* changes no value.
C30_OffsetsHandedUnchanged ==
    RanLast({"fat_write"})
        => \A i \in PwriteCalls : CallEvents[i].m = CallEvents[i].b[1]

\* The same for the offsets and sizes up to INT32_MAX.
C30_OffsetsWithinIntUnchanged ==
    RanLast({"fat_write"})
        => \A i \in PwriteCalls :
               CallEvents[i].b[1] <= INT32_MAX => CallEvents[i].m = CallEvents[i].b[1]

====
